---- MODULE Spec2Model ----
(***************************************************************************)
(* A state-machine model of nanocat's transports:                          *)
(*   - BaseOutputTransport and its per-destination MediaSender             *)
(*     (src/nanocat/transports/base_output.py): the ordered context that   *)
(*     handles data/control frames, the out-of-band context that handles   *)
(*     system frames, and each sender's audio worker and clock worker;     *)
(*   - BaseInputTransport (src/nanocat/playground/transport/               *)
(*     base_input.py): the audio worker with VAD and the emulated          *)
(*     user-speaking frames.                                               *)
(* Every `await` of the code at which a coroutine can really be suspended  *)
(* (queue get, sleep, push_frame, send_message, write_raw_audio_frames,    *)
(* cancel_task, wait_for_task) is a position of the process that runs it;  *)
(* what the code does between two such positions is one step.  A put on an *)
(* unbounded asyncio queue never suspends and is part of the step.         *)
(***************************************************************************)
EXTENDS Integers, Sequences, FiniteSets, TLC

\* ------------------------------------------------------------------ bounds
\* Data frames given to a Pipeline, and the processors between its source
\* and its sink.
MaxPipelineFrames == 4
MaxProcessors == 2

\* Inputs of resample: audio of up to MaxResampleLen bytes.
MaxResampleLen == 3
ResampleBytes == {1, 2}
ResampleRates == {1, 2}

\* Inputs of the serializer's round trip: envelope and payload values, and
\* the id and name a constructor may give a new frame.
SerIds == {0, 1}
SerNames == {"", "n"}
SerPts == {<< >>, << 0 >>, << 1 >>}      \* None, 0 and 1
SerTexts == {"", "hi"}
SerAudios == {<< >>, << 1, 2 >>}
FreshIds == {1, 2}
FreshNames == {"n", "n2"}

\* Frames handed to the output transport's process_frame after StartFrame.
MaxFrames == 3
\* The clock runs from 0 to MaxTime; timed frames carry pts in 1..MaxTime.
MaxTime == 2
\* StartInterruptionFrames handled by the output transport.
MaxInterruptions == 1
\* Frames handed to the input transport / pushed on its audio queue.
MaxInputFrames == 3

\* ------------------------------------------------------------- frame model
\* Optional values (pts, audio_out_sample_rate): <<>> is None, <<v>> is v.
None == << >>
Some(v) == << v >>
\* Python truthiness of an Optional[int]: None and 0 are both falsy.
Truthy(opt) == opt # None /\ opt[1] # 0

\* transport_destination: "None" is the default destination (Python None).
DefaultDestination == "None"

AudioKinds == {"OutputAudioRawFrame", "TTSAudioRawFrame"}

\* A frame: the envelope (id, pts, transport_destination) and the audio
\* payload (audio, sample_rate, num_channels; empty / 0 when not audio).
Frame(kind, id, pts, dest, audio, rate, channels) ==
    [kind |-> kind, id |-> id, pts |-> pts, dest |-> dest,
     audio |-> audio, sample_rate |-> rate, num_channels |-> channels]

PlainFrame(kind, id, pts, dest) == Frame(kind, id, pts, dest, << >>, 0, 0)

\* Frames the workers construct themselves; their ids are read by no handler
\* and are recorded as 0.
BotFrame(kind, dest) == PlainFrame(kind, 0, None, dest)

NoFrame == PlainFrame("none", 0, None, DefaultDestination)

\* isinstance(frame, OutputAudioRawFrame): TTSAudioRawFrame is a subclass.
IsOutputAudioRawFrame(f) == f.kind \in AudioKinds
IsTTSAudioRawFrame(f) == f.kind = "TTSAudioRawFrame"
IsEndFrame(f) == f.kind = "EndFrame"
IsTransportMessageFrame(f) == f.kind = "TransportMessageFrame"

\* The bytes of input frame `id`: labels unique over the whole run, so that a
\* lost, duplicated or reordered byte is visible.
AudioOf(id, len) == [k \in 1..len |-> << id, k >>]

\* ---------------------------------------------------------------- resampler
\* soxr.resample on int16 samples: the output has (n * out_rate) div in_rate
\* samples; output sample j is taken from input sample (j * in_rate) div
\* out_rate (a nearest-sample stand-in for the library's filter).  A sample is
\* two bytes.
SoxrResample(audio, in_rate, out_rate) ==
    LET n == Len(audio) \div 2
        m == (n * out_rate) \div in_rate
    IN [k \in 1..(2 * m) |->
          LET j == (k - 1) \div 2
              b == (k - 1) % 2
              src == (j * in_rate) \div out_rate
          IN audio[2 * src + b + 1]]

\* A resampler without the equal-rates shortcut.
resample_Always(audio, in_rate, out_rate) ==
    SoxrResample(audio, in_rate, out_rate)

resample(audio, in_rate, out_rate) ==
    IF in_rate = out_rate THEN audio
    ELSE SoxrResample(audio, in_rate, out_rate)

\* ------------------------------------------------------------------- state
VARIABLES
    params,          \* TransportParams and interruptions_allowed
    started,         \* the output transport has handled its StartFrame
    terminated,      \* it has pushed an EndFrame or a CancelFrame downstream
    sample_rate,     \* BaseOutputTransport._sample_rate
    audio_chunk_size,\* BaseOutputTransport._audio_chunk_size
    sender_order,    \* the keys of _media_senders in insertion order
    media_senders,   \* _media_senders: destination -> MediaSender and its tasks
    fifo,            \* the ordered context running process_frame
    sys,             \* the out-of-band context running process_frame
    now,             \* the clock's get_time()
    next_id,         \* the next frame id
    n_frames,        \* frames handed to process_frame so far
    n_interruptions, \* StartInterruptionFrames handled so far
    down,            \* frames pushed downstream, in order
    up,              \* frames pushed upstream, in order
    wire,            \* write_raw_audio_frames calls, in order
    sent,            \* send_message calls, in order
    flushed,         \* history: ids pending on a sender when interrupted
    cancelled_ids,   \* history: ids pending on a sender when cancel returned
    end_pending,     \* history: ids queued when the EndFrame was handled
    end_disturbed,   \* history: an interruption or cancel overlapped stop()
    emitted,         \* history: timed frames pushed, with the clock time
    inp,             \* the input transport (see the second half)
    pipe,            \* a Pipeline: its processors' queues and what left it
    fn               \* a call of a pure function: its input and its result

outvars == << params, started, terminated, sample_rate, audio_chunk_size,
              sender_order, media_senders,
              fifo, sys, now, next_id, n_frames, n_interruptions,
              down, up, wire, sent,
              flushed, cancelled_ids, end_pending, end_disturbed, emitted >>

vars == << outvars, inp, pipe, fn >>

\* ------------------------------------------------------- tasks (asyncio)
\* An audio task: where _audio_task_handler is suspended, the frame it took
\* from the queue and its bot_speaking_counter.
NewAudioTask ==
    [status |-> "running", pc |-> "get", frame |-> NoFrame,
     bot_speaking_counter |-> 0]

NoEntry == [pts |-> 0, id |-> 0, frame |-> NoFrame]

\* A clock task: where _clock_task_handler is suspended, the entry it popped,
\* the current_time it read and the clock time its sleep ends at.
NewClockTask ==
    [status |-> "running", pc |-> "get", entry |-> NoEntry,
     current_time |-> 0, wake |-> 0]

\* A task that has ended keeps only how it ended.
EndedAudioTask(how) == [NewAudioTask EXCEPT !.status = how, !.pc = "end"]
EndedClockTask(how) == [NewClockTask EXCEPT !.status = how, !.pc = "end"]

\* FrameProcessor.cancel_task(t): request cancellation and await termination.
\* A cancel_task that returns while the task runs on.
cancel_task_NoEffect(tasks, h, ended) == tasks

\* The cancelled coroutine gets CancelledError at the await it is suspended
\* in and runs no further statement; a task that has already ended is left
\* as it ended.  `tasks` are the tasks of one kind of a sender, h the handle.
cancel_task(tasks, h, ended) ==
    IF h \in 1..Len(tasks) /\ tasks[h].status = "running"
    THEN [tasks EXCEPT ![h] = ended]
    ELSE tasks

\* ------------------------------------------------------------ MediaSender
\* MediaSender.__init__ followed by MediaSender.start: empty buffer, not
\* speaking, no task handle (0 is None); start() then creates both tasks.
NewMediaSender(destination, rate, chunk_size) ==
    [destination |-> destination,
     sample_rate |-> rate,
     audio_chunk_size |-> chunk_size,
     audio_buffer |-> << >>,
     bot_speaking |-> FALSE,
     audio_task |-> 0,
     clock_task |-> 0,
     audio_queue |-> << >>,
     clock_queue |-> {},
     audio_tasks |-> << >>,
     clock_tasks |-> << >>]

\* A _create_audio_task that keeps the old queue for the new task.
create_audio_task_KeepQueue(s) ==
    IF s.audio_task = 0
    THEN [s EXCEPT !.audio_tasks = Append(@, NewAudioTask),
                   !.audio_task = Len(s.audio_tasks) + 1]
    ELSE s

\* _create_audio_task: only when the handle is None; a fresh Queue and task.
create_audio_task(s) ==
    IF s.audio_task = 0
    THEN [s EXCEPT !.audio_queue = << >>,
                   !.audio_tasks = Append(@, NewAudioTask),
                   !.audio_task = Len(s.audio_tasks) + 1]
    ELSE s

\* _create_clock_task: only when the handle is None; a fresh PriorityQueue.
create_clock_task(s) ==
    IF s.clock_task = 0
    THEN [s EXCEPT !.clock_queue = {},
                   !.clock_tasks = Append(@, NewClockTask),
                   !.clock_task = Len(s.clock_tasks) + 1]
    ELSE s

\* _cancel_audio_task up to its await: `if self._audio_task: await cancel_task`.
cancel_audio_task_request(s) ==
    [s EXCEPT !.audio_tasks =
        cancel_task(s.audio_tasks, s.audio_task, EndedAudioTask("cancelled"))]

\* _cancel_audio_task after its await: `self._audio_task = None`.
cancel_audio_task_finish(s) == [s EXCEPT !.audio_task = 0]

\* _cancel_clock_task up to its await.
cancel_clock_task_request(s) ==
    [s EXCEPT !.clock_tasks =
        cancel_task(s.clock_tasks, s.clock_task, EndedClockTask("cancelled"))]

\* _cancel_clock_task after its await: `self._clock_task = None`.
cancel_clock_task_finish(s) == [s EXCEPT !.clock_task = 0]

\* MediaSender.start: clear the buffer, create the clock and the audio task.
sender_start(s) ==
    create_audio_task(create_clock_task([s EXCEPT !.audio_buffer = << >>]))

\* The chunks handle_audio_frame slices off `buffer`: while the buffer holds
\* at least chunk_size bytes, its first chunk_size bytes are one chunk.
RECURSIVE Chunks(_, _)
Chunks(buffer, chunk_size) ==
    IF Len(buffer) >= chunk_size
    THEN << SubSeq(buffer, 1, chunk_size) >>
         \o Chunks(SubSeq(buffer, chunk_size + 1, Len(buffer)), chunk_size)
    ELSE << >>

\* A loop that throws the left-over bytes away.
Residue_Drop(buffer, chunk_size) == << >>

\* What is left of `buffer` after the loop.
RECURSIVE Residue(_, _)
Residue(buffer, chunk_size) ==
    IF Len(buffer) >= chunk_size
    THEN Residue(SubSeq(buffer, chunk_size + 1, Len(buffer)), chunk_size)
    ELSE buffer

\* The chunk frames: cls(chunk, sample_rate=self._sample_rate,
\* num_channels=frame.num_channels), a new frame each (ids first_id, ...);
\* pts and transport_destination are not copied.
ChunkFrames(s, frame, chunks, first_id) ==
    [i \in 1..Len(chunks) |->
        Frame(frame.kind, first_id + i - 1, None, DefaultDestination,
              chunks[i], s.sample_rate, frame.num_channels)]

\* MediaSender.handle_audio_frame.  The resampler's resample and the puts on
\* the unbounded queue never suspend: the handler is one step.
handle_audio_frame(s, frame, first_id) ==
    IF ~params.audio_out_enabled THEN s
    ELSE
      LET resampled == resample(frame.audio, frame.sample_rate, s.sample_rate)
          buffer == s.audio_buffer \o resampled
          chunks == Chunks(buffer, s.audio_chunk_size)
      IN [s EXCEPT
            !.audio_queue = @ \o ChunkFrames(s, frame, chunks, first_id),
            !.audio_buffer = Residue(buffer, s.audio_chunk_size)]

\* How many frames handle_audio_frame constructs for `frame`.
ChunkCount(s, frame) ==
    IF ~params.audio_out_enabled THEN 0
    ELSE Len(Chunks(s.audio_buffer
                    \o resample(frame.audio, frame.sample_rate, s.sample_rate),
                    s.audio_chunk_size))

\* MediaSender.handle_timed_frame: put (pts, id, frame) on the clock queue.
ClockEntry(pts, frame) == [pts |-> pts, id |-> frame.id, frame |-> frame]

handle_timed_frame(s, frame) ==
    [s EXCEPT !.clock_queue = @ \cup {ClockEntry(frame.pts[1], frame)}]

\* MediaSender.handle_sync_frame: put the frame on the audio queue.
handle_sync_frame(s, frame) ==
    [s EXCEPT !.audio_queue = Append(@, frame)]

\* The entry a PriorityQueue.get() returns: the least (pts, id).
EntryLess(a, b) == a.pts < b.pts \/ (a.pts = b.pts /\ a.id < b.id)

MinEntry(queue) ==
    CHOOSE e \in queue : \A o \in queue : o = e \/ EntryLess(e, o)


\* ----------------------------------------------------- bot-speaking frames
BotStartedSpeakingFrame(s) == BotFrame("BotStartedSpeakingFrame", s.destination)
BotStoppedSpeakingFrame(s) == BotFrame("BotStoppedSpeakingFrame", s.destination)
\* BotSpeakingFrame() is pushed without a transport_destination.
BotSpeakingFrame == BotFrame("BotSpeakingFrame", DefaultDestination)

\* _bot_started_speaking after its two pushes: `self._bot_speaking = True`.
bot_started_speaking_finish(s) == [s EXCEPT !.bot_speaking = TRUE]

\* _bot_stopped_speaking after its two pushes: the flag and the buffer.
bot_stopped_speaking_finish(s) ==
    [s EXCEPT !.bot_speaking = FALSE, !.audio_buffer = << >>]

\* What one step of a process does: the sender after it and what it pushed
\* downstream, pushed upstream, wrote and sent.
Effect(s, dn, u, w, m) ==
    [s |-> s, down |-> dn, up |-> u, wire |-> w, sent |-> m]

Quiet(s) == Effect(s, << >>, << >>, << >>, << >>)
PushDown(s, f) == Effect(s, << f >>, << >>, << >>, << >>)
PushUp(s, f) == Effect(s, << >>, << f >>, << >>, << >>)

\* ------------------------------------------------------------ audio worker
\* BOT_SPEAKING_CHUNK_PERIOD = max(int(200 / TOTAL_CHUNK_MS), 1).
BOT_SPEAKING_CHUNK_PERIOD ==
    LET TOTAL_CHUNK_MS == params.audio_out_10ms_chunks * 10
        q == 200 \div TOTAL_CHUNK_MS
    IN IF q > 1 THEN q ELSE 1

\* The running audio tasks of a sender (the handle may name an ended one).
LiveAudio(s) ==
    {h \in 1..Len(s.audio_tasks) : s.audio_tasks[h].status = "running"}

AudioAt(s, h, pc) == [s EXCEPT !.audio_tasks[h].pc = pc]

\* Back at `await asyncio.wait_for(self._audio_queue.get(), ...)`.
AudioToGet(s, h) ==
    [s EXCEPT !.audio_tasks[h].pc = "get", !.audio_tasks[h].frame = NoFrame]

\* push_frame(frame), then suspended in it; an audio frame is written next.
AudioPushFrame(s, h) ==
    LET frame == s.audio_tasks[h].frame
    IN IF IsOutputAudioRawFrame(frame)
       THEN PushDown(AudioAt(s, h, "pushed"), frame)
       ELSE PushDown(AudioToGet(s, h), frame)

\* From `if isinstance(frame, EndFrame)` to the next await: the task ends on
\* an EndFrame; _handle_frame sends a TransportMessageFrame; else push_frame.
AudioAfterSpeaking(s, h) ==
    LET frame == s.audio_tasks[h].frame
    IN IF IsEndFrame(frame)
       THEN Quiet([s EXCEPT !.audio_tasks[h] = EndedAudioTask("done")])
       ELSE IF IsTransportMessageFrame(frame)
       THEN Effect(AudioAt(s, h, "sending"), << >>, << >>, << >>, << frame >>)
       ELSE AudioPushFrame(s, h)

\* A speaking section that pushes BotSpeakingFrame for every TTS chunk.
AudioSpeakingSection_EveryChunk(s, h) ==
    PushDown(AudioAt(s, h, "speaking_down"), BotSpeakingFrame)

\* From `if bot_speaking_counter % BOT_SPEAKING_CHUNK_PERIOD == 0`.
AudioSpeakingSection(s, h) ==
    IF s.audio_tasks[h].bot_speaking_counter % BOT_SPEAKING_CHUNK_PERIOD = 0
    THEN PushDown(AudioAt(s, h, "speaking_down"), BotSpeakingFrame)
    ELSE AudioAfterSpeaking(
            [s EXCEPT !.audio_tasks[h].bot_speaking_counter = @ + 1], h)

\* The loop body from the frame the queue returned to the first await.
AudioAfterGet(s, h) ==
    LET frame == s.audio_tasks[h].frame
    IN IF IsTTSAudioRawFrame(frame)
       THEN IF ~s.bot_speaking
            THEN PushDown(AudioAt(s, h, "started_down"),
                          BotStartedSpeakingFrame(s))
            ELSE AudioSpeakingSection(s, h)
       ELSE AudioAfterSpeaking(s, h)

\* The task resumes from the await it is suspended in and runs to the next.
AudioResume(s, h) ==
    LET task == s.audio_tasks[h]
    IN CASE task.pc = "get" ->
              \* the queue had a frame
              AudioAfterGet(
                [s EXCEPT !.audio_tasks[h].frame = Head(s.audio_queue),
                          !.audio_queue = Tail(@)], h)
         [] task.pc = "started_down" ->
              PushUp(AudioAt(s, h, "started_up"), BotStartedSpeakingFrame(s))
         [] task.pc = "started_up" ->
              AudioSpeakingSection(bot_started_speaking_finish(s), h)
         [] task.pc = "speaking_down" ->
              PushUp(AudioAt(s, h, "speaking_up"), BotSpeakingFrame)
         [] task.pc = "speaking_up" ->
              \* bot_speaking_counter = 0, then += 1
              AudioAfterSpeaking(
                [s EXCEPT !.audio_tasks[h].bot_speaking_counter = 1], h)
         [] task.pc = "sending" -> AudioPushFrame(s, h)
         [] task.pc = "pushed" ->
              Effect(AudioToGet(s, h), << >>, << >>,
                     << [destination |-> s.destination, id |-> task.frame.id,
                         audio |-> task.frame.audio] >>, << >>)
         [] task.pc = "stopped_down" ->
              PushUp(AudioAt(s, h, "stopped_up"), BotStoppedSpeakingFrame(s))
         [] task.pc = "stopped_up" ->
              Quiet(AudioToGet(bot_stopped_speaking_finish(s), h))

\* A timeout that announces the stop whether or not the bot was speaking.
AudioOnTimeout_Always(s, h) ==
    PushDown(AudioAt(s, h, "stopped_down"), BotStoppedSpeakingFrame(s))

\* wait_for timed out (BOT_VAD_STOP_SECS with nothing on the queue):
\* _bot_stopped_speaking up to its first await.
AudioOnTimeout(s, h) ==
    IF s.bot_speaking
    THEN PushDown(AudioAt(s, h, "stopped_down"), BotStoppedSpeakingFrame(s))
    ELSE Quiet(s)

\* ------------------------------------------------------------ clock worker
LiveClock(s) ==
    {h \in 1..Len(s.clock_tasks) : s.clock_tasks[h].status = "running"}

ClockToGet(s, h) == [s EXCEPT !.clock_tasks[h] = NewClockTask]

\* A clock worker that never sleeps.
ClockMustWait_Never(timestamp, current_time) == FALSE

\* `if timestamp > current_time`: whether the worker sleeps before pushing.
ClockMustWait(timestamp, current_time) == timestamp > current_time

\* asyncio.sleep(nanoseconds_to_seconds(timestamp - current_time)) ends when
\* the clock has advanced by that much since current_time was read.
ClockWakeTime(timestamp, current_time) ==
    current_time + (timestamp - current_time)

\* The loop body from the entry the queue returned to the first await.
ClockAfterGet(s, h, entry, time) ==
    IF IsEndFrame(entry.frame)
    THEN Quiet([s EXCEPT !.clock_tasks[h] = EndedClockTask("done")])
    ELSE IF ClockMustWait(entry.pts, time)
    THEN Quiet([s EXCEPT !.clock_tasks[h] =
                  [status |-> "running", pc |-> "sleep", entry |-> entry,
                   current_time |-> time,
                   wake |-> ClockWakeTime(entry.pts, time)]])
    ELSE PushDown(ClockToGet(s, h), entry.frame)

ClockResume(s, h, time) ==
    LET task == s.clock_tasks[h]
    IN CASE task.pc = "get" ->
              LET entry == MinEntry(s.clock_queue)
              IN ClockAfterGet([s EXCEPT !.clock_queue = @ \ {entry}],
                               h, entry, time)
         [] task.pc = "sleep" ->
              PushDown(ClockToGet(s, h), task.entry.frame)

\* Whether the task can resume: a frame is there / the sleep is over.
ClockReady(s, h, time) ==
    LET task == s.clock_tasks[h]
    IN \/ task.pc = "get" /\ s.clock_queue # {}
       \/ task.pc = "sleep" /\ time >= task.wake


\* ------------------------------------------------ ids pending on a sender
SeqIds(q) == {q[i].id : i \in 1..Len(q)}
QueueIds(s) == SeqIds(s.audio_queue) \cup {e.id : e \in s.clock_queue}
HeldIds(s) ==
    {s.audio_tasks[h].frame.id : h \in LiveAudio(s)}
    \cup {s.clock_tasks[h].entry.id : h \in LiveClock(s)}
\* Frames queued on the sender or taken by a worker that is still handling
\* them (0 is no frame).
PendingIds(s) == (QueueIds(s) \cup HeldIds(s)) \ {0}

\* ------------------------------------- MediaSender.handle_interruptions
\* A step of a context on one sender: the sender, the context's next
\* position, and what it pushed.
Move(s, pc, dn, u) == [s |-> s, pc |-> pc, down |-> dn, up |-> u]

\* `self._create_clock_task(); self._create_audio_task()`, then
\* _bot_stopped_speaking up to its first await.
InterruptCreate(s) ==
    LET s2 == create_audio_task(create_clock_task(s))
    IN IF s2.bot_speaking
       THEN Move(s2, "int_stopped_down", << BotStoppedSpeakingFrame(s2) >>, << >>)
       ELSE Move(s2, "idle", << >>, << >>)

\* `await self._cancel_clock_task()` up to its await, if there is a task.
InterruptCancelClock(s) ==
    IF s.clock_task # 0
    THEN Move(cancel_clock_task_request(s), "int_clock", << >>, << >>)
    ELSE InterruptCreate(s)

\* `await self._cancel_audio_task()` up to its await, if there is a task.
InterruptCancelAudio(s) ==
    IF s.audio_task # 0
    THEN Move(cancel_audio_task_request(s), "int_audio", << >>, << >>)
    ELSE InterruptCancelClock(s)

\* A handle_interruptions without the interruptions_allowed test.
handle_interruptions_Always(s) == InterruptCancelAudio(s)

\* handle_interruptions from its call to its first await.
handle_interruptions(s) ==
    IF ~params.interruptions_allowed
    THEN Move(s, "idle", << >>, << >>)
    ELSE InterruptCancelAudio(s)

\* handle_interruptions resumes from the await `pc` names.
InterruptResume(s, pc) ==
    CASE pc = "int_audio" -> InterruptCancelClock(cancel_audio_task_finish(s))
      [] pc = "int_clock" -> InterruptCreate(cancel_clock_task_finish(s))
      [] pc = "int_stopped_down" ->
           Move(s, "int_stopped_up", << >>, << BotStoppedSpeakingFrame(s) >>)
      [] pc = "int_stopped_up" ->
           Move(bot_stopped_speaking_finish(s), "idle", << >>, << >>)

InterruptPcs == {"int_audio", "int_clock", "int_stopped_down", "int_stopped_up"}

\* ------------------------------------------ BaseOutputTransport.cancel
\* A step of a context over the senders: all senders, the next position, the
\* sender (index in sender_order) it is at, and the senders it finished.
Walk(ms, pc, idx, finished) ==
    [ms |-> ms, pc |-> pc, idx |-> idx, finished |-> finished]

RECURSIVE CancelEnter(_, _, _)
\* `await self._cancel_clock_task()` of sender i, then the next sender.
CancelClock(ms, i, finished) ==
    LET d == sender_order[i]
    IN IF ms[d].clock_task # 0
       THEN Walk([ms EXCEPT ![d] = cancel_clock_task_request(@)],
                 "cancel_clock", i, finished)
       ELSE CancelEnter(ms, i + 1, finished \cup {d})

\* MediaSender.cancel of sender i from its call; past the last sender the
\* transport's cancel() returns.
CancelEnter(ms, i, finished) ==
    IF i > Len(sender_order) THEN Walk(ms, "cancel_done", i, finished)
    ELSE LET d == sender_order[i]
         IN IF ms[d].audio_task # 0
            THEN Walk([ms EXCEPT ![d] = cancel_audio_task_request(@)],
                      "cancel_audio", i, finished)
            ELSE CancelClock(ms, i, finished)

CancelResume(ms, pc, i) ==
    LET d == sender_order[i]
    IN CASE pc = "cancel_audio" ->
              CancelClock([ms EXCEPT ![d] = cancel_audio_task_finish(@)], i, {})
         [] pc = "cancel_clock" ->
              CancelEnter([ms EXCEPT ![d] = cancel_clock_task_finish(@)],
                          i + 1, {d})

CancelPcs == {"cancel_audio", "cancel_clock"}

\* -------------------------------------------- BaseOutputTransport.stop
\* sys.maxsize: the EndFrame's place in the clock queue, after every pts.
sys_maxsize == MaxTime + 1

\* FrameProcessor.wait_for_task(t) returns when t has completed normally.
TaskCompleted(tasks, h) == tasks[h].status = "done"

RECURSIVE StopEnter(_, _, _)
\* A stop() that does not wait for the clock task.
StopWaitClock_NoWait(ms, i, frame) == StopEnter(ms, i + 1, frame)

\* `if self._clock_task: await wait_for_task(self._clock_task)` of sender i.
StopWaitClock(ms, i, frame) ==
    LET s == ms[sender_order[i]]
    IN IF s.clock_task # 0 /\ ~TaskCompleted(s.clock_tasks, s.clock_task)
       THEN [ms |-> ms, pc |-> "stop_clock", idx |-> i, task |-> s.clock_task]
       ELSE StopEnter(ms, i + 1, frame)

\* `if self._audio_task: await wait_for_task(self._audio_task)` of sender i.
StopWaitAudio(ms, i, frame) ==
    LET s == ms[sender_order[i]]
    IN IF s.audio_task # 0 /\ ~TaskCompleted(s.audio_tasks, s.audio_task)
       THEN [ms |-> ms, pc |-> "stop_audio", idx |-> i, task |-> s.audio_task]
       ELSE StopWaitClock(ms, i, frame)

\* MediaSender.stop of sender i from its call: the EndFrame is put on both
\* queues; past the last sender the transport's stop() returns.
StopEnter(ms, i, frame) ==
    IF i > Len(sender_order)
    THEN [ms |-> ms, pc |-> "stop_done", idx |-> i, task |-> 0]
    ELSE LET d == sender_order[i]
             s == [ms[d] EXCEPT
                     !.clock_queue = @ \cup {ClockEntry(sys_maxsize, frame)},
                     !.audio_queue = Append(@, frame)]
         IN StopWaitAudio([ms EXCEPT ![d] = s], i, frame)

\* The task stop() awaits has completed normally.
StopReady(ms, pc, i, h) ==
    LET s == ms[sender_order[i]]
    IN \/ pc = "stop_audio" /\ TaskCompleted(s.audio_tasks, h)
       \/ pc = "stop_clock" /\ TaskCompleted(s.clock_tasks, h)

StopResume(ms, pc, i, frame) ==
    IF pc = "stop_audio" THEN StopWaitClock(ms, i, frame)
    ELSE StopEnter(ms, i + 1, frame)

StopPcs == {"stop_audio", "stop_clock"}

\* A _handle_frame that hands a frame for an unregistered destination to the
\* default sender.
handle_frame_Fallback(ms, frame, first_id) ==
    LET d == IF frame.dest \in DOMAIN ms THEN frame.dest
             ELSE DefaultDestination
        s == ms[d]
    IN [ms EXCEPT ![d] =
          IF IsOutputAudioRawFrame(frame)
          THEN handle_audio_frame(s, frame, first_id)
          ELSE IF Truthy(frame.pts)
          THEN handle_timed_frame(s, frame)
          ELSE handle_sync_frame(s, frame)]

\* ---------------------------------- BaseOutputTransport._handle_frame
\* A frame that is not a StartInterruptionFrame: dropped when its
\* transport_destination is not registered, else handed to its sender.
handle_frame(ms, frame, first_id) ==
    IF frame.dest \notin DOMAIN ms THEN ms
    ELSE LET s == ms[frame.dest]
         IN [ms EXCEPT ![frame.dest] =
               IF IsOutputAudioRawFrame(frame)
               THEN handle_audio_frame(s, frame, first_id)
               ELSE IF Truthy(frame.pts)
               THEN handle_timed_frame(s, frame)
               ELSE handle_sync_frame(s, frame)]

\* The frames _handle_frame makes handle_audio_frame construct.
FramesBuilt(ms, frame) ==
    IF frame.dest \in DOMAIN ms /\ IsOutputAudioRawFrame(frame)
    THEN ChunkCount(ms[frame.dest], frame)
    ELSE 0


\* ------------------------------------------------------------ initial state
IdleContext == [pc |-> "idle", frame |-> NoFrame, idx |-> 0, task |-> 0]

\* The transport after __init__: no sender, rates 0, nothing pushed.
OutInit(configurations) ==
    /\ params \in configurations
    /\ started = FALSE
    /\ terminated = FALSE
    /\ sample_rate = 0
    /\ audio_chunk_size = 0
    /\ sender_order = << >>
    /\ media_senders = << >>
    /\ fifo = IdleContext
    /\ sys = IdleContext
    /\ now = 0
    /\ next_id = 1
    /\ n_frames = 0
    /\ n_interruptions = 0
    /\ down = << >>
    /\ up = << >>
    /\ wire = << >>
    /\ sent = << >>
    /\ flushed = << >>
    /\ cancelled_ids = << >>
    /\ end_pending = {}
    /\ end_disturbed = FALSE
    /\ emitted = {}

\* TransportParams (with FrameProcessor.interruptions_allowed and the
\* StartFrame's audio_out_sample_rate): one 10 ms of audio is 2 bytes.
Configuration(destinations, allowed) ==
    [audio_out_enabled |-> TRUE,
     audio_out_sample_rate |-> None,
     audio_out_channels |-> 1,
     audio_out_10ms_chunks |-> 2,
     audio_out_destinations |-> destinations,
     interruptions_allowed |-> allowed,
     start_audio_out_sample_rate |-> 100]

\* ------------------------------------------------ BaseOutputTransport.start
\* list(set(destinations)): each destination once (in first-occurrence order).
RECURSIVE Unique(_)
Unique(seq) ==
    IF seq = << >> THEN << >>
    ELSE LET rest == Unique(SubSeq(seq, 1, Len(seq) - 1))
             last == seq[Len(seq)]
         IN IF \E i \in 1..Len(rest) : rest[i] = last THEN rest
            ELSE Append(rest, last)

\* `params.audio_out_sample_rate or frame.audio_out_sample_rate`.
StartSampleRate ==
    IF Truthy(params.audio_out_sample_rate)
    THEN params.audio_out_sample_rate[1]
    ELSE params.start_audio_out_sample_rate

\* A chunk size that leaves the channels out.
StartChunkSize_Mono(rate) ==
    ((rate \div 100) * 2) * params.audio_out_10ms_chunks

\* int(sample_rate / 100) * audio_out_channels * 2 * audio_out_10ms_chunks.
StartChunkSize(rate) ==
    ((rate \div 100) * params.audio_out_channels * 2)
    * params.audio_out_10ms_chunks

\* The keys of _media_senders after start(): None, then the destinations.
StartSenderOrder ==
    LET dests == Unique(params.audio_out_destinations)
    IN << DefaultDestination >>
       \o SelectSeq(dests, LAMBDA d : d # DefaultDestination)

\* process_frame(StartFrame): push it downstream, then start().
ProcessStartFrame ==
    /\ ~started
    /\ sys.pc = "idle"
    /\ LET rate == StartSampleRate
           size == StartChunkSize(rate)
           order == StartSenderOrder
           dests == {order[i] : i \in 1..Len(order)}
       IN /\ sample_rate' = rate
          /\ audio_chunk_size' = size
          /\ sender_order' = order
          /\ media_senders' =
               [d \in dests |-> sender_start(NewMediaSender(d, rate, size))]
          /\ flushed' = [d \in dests |-> {}]
          /\ cancelled_ids' = [d \in dests |-> {}]
    /\ down' = Append(down, PlainFrame("StartFrame", next_id, None,
                                       DefaultDestination))
    /\ next_id' = next_id + 1
    /\ started' = TRUE
    /\ UNCHANGED << params, terminated, fifo, sys, now, n_frames,
                    n_interruptions, up, wire, sent, end_pending,
                    end_disturbed, emitted, inp, pipe, fn >>

\* ------------------------------------------------------------ worker steps
Apply(d, e) ==
    /\ media_senders' = [media_senders EXCEPT ![d] = e.s]
    /\ down' = down \o e.down
    /\ up' = up \o e.up
    /\ wire' = wire \o e.wire
    /\ sent' = sent \o e.sent

\* The audio task of sender d resumes (a frame is on its queue, or the
\* await it is suspended in returns) and runs to its next await.
AudioStep(d) ==
    /\ d \in DOMAIN media_senders
    /\ \E h \in LiveAudio(media_senders[d]) :
         /\ media_senders[d].audio_tasks[h].pc = "get"
              => media_senders[d].audio_queue # << >>
         /\ Apply(d, AudioResume(media_senders[d], h))
    /\ UNCHANGED << params, started, terminated, sample_rate,
                    audio_chunk_size, sender_order, fifo, sys, now, next_id,
                    n_frames, n_interruptions, flushed, cancelled_ids,
                    end_pending, end_disturbed, emitted, inp, pipe, fn >>

\* Nothing arrived on the audio queue for BOT_VAD_STOP_SECS.
AudioTimeout(d) ==
    /\ d \in DOMAIN media_senders
    /\ \E h \in LiveAudio(media_senders[d]) :
         /\ media_senders[d].audio_tasks[h].pc = "get"
         /\ media_senders[d].audio_queue = << >>
         /\ Apply(d, AudioOnTimeout(media_senders[d], h))
    /\ UNCHANGED << params, started, terminated, sample_rate,
                    audio_chunk_size, sender_order, fifo, sys, now, next_id,
                    n_frames, n_interruptions, flushed, cancelled_ids,
                    end_pending, end_disturbed, emitted, inp, pipe, fn >>

\* The clock task of sender d resumes and runs to its next await.
ClockStep(d) ==
    /\ d \in DOMAIN media_senders
    /\ \E h \in LiveClock(media_senders[d]) :
         /\ ClockReady(media_senders[d], h, now)
         /\ LET e == ClockResume(media_senders[d], h, now)
            IN /\ Apply(d, e)
               /\ emitted' = emitted \cup
                    {[id |-> e.down[i].id, pts |-> e.down[i].pts[1],
                      at |-> now,
                      behind |-> {x.id : x \in
                          {y \in media_senders[d].clock_queue :
                              EntryLess(y, ClockEntry(e.down[i].pts[1],
                                                      e.down[i]))}}]
                       : i \in 1..Len(e.down)}
    /\ UNCHANGED << params, started, terminated, sample_rate,
                    audio_chunk_size, sender_order, fifo, sys, now, next_id,
                    n_frames, n_interruptions, flushed, cancelled_ids,
                    end_pending, end_disturbed, inp, pipe, fn >>

\* The clock advances.
Tick ==
    /\ started
    /\ now < MaxTime
    /\ now' = now + 1
    /\ UNCHANGED << params, started, terminated, sample_rate,
                    audio_chunk_size, sender_order, media_senders, fifo, sys,
                    next_id, n_frames, n_interruptions, down, up, wire, sent,
                    flushed, cancelled_ids, end_pending, end_disturbed,
                    emitted, inp, pipe, fn >>


\* ------------------------------------------- process_frame, ordered context
\* Data and control frames reach process_frame one at a time, in order,
\* after the StartFrame and until an EndFrame or CancelFrame went through.
OrderedReady ==
    started /\ ~terminated /\ fifo.pc = "idle" /\ n_frames < MaxFrames

\* System frames are handled out of band, by the task that pushed them.
SystemReady ==
    started /\ ~terminated /\ sys.pc = "idle" /\ n_frames < MaxFrames

AudioInput(kind, dest, len, rate, channels) ==
    Frame(kind, next_id, None, dest, AudioOf(next_id, len), rate, channels)

\* process_frame(OutputAudioRawFrame or TTSAudioRawFrame): _handle_frame.
AudioFrameHandled(kind, dest, len, rate, channels) ==
    /\ LET frame == AudioInput(kind, dest, len, rate, channels)
       IN /\ media_senders' = handle_frame(media_senders, frame, next_id + 1)
          /\ next_id' = next_id + 1 + FramesBuilt(media_senders, frame)
    /\ n_frames' = n_frames + 1
    /\ UNCHANGED << params, started, terminated, sample_rate,
                    audio_chunk_size, sender_order, fifo, sys, now,
                    n_interruptions, down, up, wire, sent, flushed,
                    cancelled_ids, end_pending, end_disturbed, emitted, inp, pipe, fn >>

ProcessAudioFrame(kind, dest, len, rate, channels) ==
    /\ OrderedReady
    /\ AudioFrameHandled(kind, dest, len, rate, channels)

\* process_frame of any other downstream data frame: `elif frame.pts` and the
\* final `else` both end in _handle_frame, which tells timed from sync.
ProcessOtherFrame(kind, pts, dest) ==
    /\ OrderedReady
    /\ media_senders' =
         handle_frame(media_senders, PlainFrame(kind, next_id, pts, dest), 0)
    /\ next_id' = next_id + 1
    /\ n_frames' = n_frames + 1
    /\ UNCHANGED << params, started, terminated, sample_rate,
                    audio_chunk_size, sender_order, fifo, sys, now,
                    n_interruptions, down, up, wire, sent, flushed,
                    cancelled_ids, end_pending, end_disturbed, emitted, inp, pipe, fn >>

AllQueueIds(ms) == UNION {QueueIds(ms[d]) : d \in DOMAIN ms}

\* stop() has returned: `await self.push_frame(frame, direction)`.
StopOutcome(r, frame) ==
    /\ media_senders' = r.ms
    /\ IF r.pc = "stop_done"
       THEN /\ down' = Append(down, frame)
            /\ terminated' = TRUE
            /\ fifo' = [IdleContext EXCEPT !.frame = frame]
       ELSE /\ down' = down
            /\ terminated' = terminated
            /\ fifo' = [pc |-> r.pc, frame |-> frame, idx |-> r.idx,
                        task |-> r.task]

\* process_frame(EndFrame): stop() every sender in turn, up to the first
\* task it has to wait for.
ProcessEndFrame ==
    /\ OrderedReady
    /\ LET frame == PlainFrame("EndFrame", next_id, None, DefaultDestination)
       IN StopOutcome(StopEnter(media_senders, 1, frame), frame)
    /\ end_pending' = AllQueueIds(media_senders)
    /\ end_disturbed' = (sys.pc # "idle")
    /\ next_id' = next_id + 1
    /\ n_frames' = n_frames + 1
    /\ UNCHANGED << params, started, sample_rate, audio_chunk_size,
                    sender_order, sys, now, n_interruptions, up, wire, sent,
                    flushed, cancelled_ids, emitted, inp, pipe, fn >>

\* The task stop() was waiting for has completed: stop() goes on.
StopContinue ==
    /\ fifo.pc \in StopPcs
    /\ StopReady(media_senders, fifo.pc, fifo.idx, fifo.task)
    /\ StopOutcome(StopResume(media_senders, fifo.pc, fifo.idx, fifo.frame),
                   fifo.frame)
    /\ UNCHANGED << params, started, sample_rate, audio_chunk_size,
                    sender_order, sys, now, next_id, n_frames,
                    n_interruptions, up, wire, sent, flushed, cancelled_ids,
                    end_pending, end_disturbed, emitted, inp, pipe, fn >>

\* --------------------------------------- process_frame, out-of-band context
\* cancel() has returned: `await self.push_frame(frame, direction)`.
CancelOutcome(r, frame) ==
    /\ media_senders' = r.ms
    /\ cancelled_ids' =
         [d \in DOMAIN cancelled_ids |->
            IF d \in r.finished THEN cancelled_ids[d] \cup QueueIds(r.ms[d])
            ELSE cancelled_ids[d]]
    /\ IF r.pc = "cancel_done"
       THEN /\ down' = Append(down, frame)
            /\ terminated' = TRUE
            /\ sys' = [IdleContext EXCEPT !.frame = frame]
       ELSE /\ down' = down
            /\ terminated' = terminated
            /\ sys' = [pc |-> r.pc, frame |-> frame, idx |-> r.idx, task |-> 0]

\* process_frame(CancelFrame): cancel() every sender in turn, up to the
\* first cancel_task it awaits.
ProcessCancelFrame ==
    /\ SystemReady
    /\ LET frame == PlainFrame("CancelFrame", next_id, None, DefaultDestination)
       IN CancelOutcome(CancelEnter(media_senders, 1, {}), frame)
    /\ end_disturbed' = (end_disturbed \/ fifo.pc \in StopPcs)
    /\ next_id' = next_id + 1
    /\ n_frames' = n_frames + 1
    /\ UNCHANGED << params, started, sample_rate, audio_chunk_size,
                    sender_order, fifo, now, n_interruptions, up, wire, sent,
                    flushed, end_pending, emitted, inp, pipe, fn >>

\* The cancelled task has terminated: cancel() goes on.
CancelContinue ==
    /\ sys.pc \in CancelPcs
    /\ CancelOutcome(CancelResume(media_senders, sys.pc, sys.idx), sys.frame)
    /\ UNCHANGED << params, started, sample_rate, audio_chunk_size,
                    sender_order, fifo, now, next_id, n_frames,
                    n_interruptions, up, wire, sent, flushed, end_pending,
                    end_disturbed, emitted, inp, pipe, fn >>

AudioPendingIds(s) ==
    (SeqIds(s.audio_queue)
     \cup {s.audio_tasks[h].frame.id : h \in LiveAudio(s)}) \ {0}

\* An interruption that also empties the audio queues of the other senders.
InterruptOutcome_AllQueues(d, m, frame, seen) ==
    /\ media_senders' =
         [x \in DOMAIN media_senders |->
            IF x = d THEN m.s
            ELSE [media_senders[x] EXCEPT !.audio_queue = << >>]]
    /\ down' = down \o m.down
    /\ up' = up \o m.up
    /\ flushed' = [flushed EXCEPT ![d] = @ \cup seen]
    /\ sys' = IF m.pc = "idle" THEN [IdleContext EXCEPT !.frame = frame]
              ELSE [pc |-> m.pc, frame |-> frame, idx |-> 0, task |-> 0]

\* handle_interruptions moved on: the sender, what was pushed, and the ids
\* that were pending when it was called (seen) or on the queue it replaced.
InterruptOutcome(d, m, frame, seen) ==
    /\ media_senders' = [media_senders EXCEPT ![d] = m.s]
    /\ down' = down \o m.down
    /\ up' = up \o m.up
    /\ flushed' = [flushed EXCEPT ![d] =
         @ \cup seen
           \cup (IF Len(m.s.audio_tasks) > Len(media_senders[d].audio_tasks)
                 THEN SeqIds(media_senders[d].audio_queue) \ {0} ELSE {})]
    /\ sys' = IF m.pc = "idle" THEN [IdleContext EXCEPT !.frame = frame]
              ELSE [pc |-> m.pc, frame |-> frame, idx |-> 0, task |-> 0]

\* process_frame(StartInterruptionFrame): push it downstream, then
\* _handle_frame: dropped for an unregistered destination, else the
\* sender's handle_interruptions up to its first await.
StartInterruptionFrameHandled(dest) ==
    /\ n_interruptions < MaxInterruptions
    /\ LET frame == PlainFrame("StartInterruptionFrame", next_id, None, dest)
       IN IF dest \in DOMAIN media_senders
          THEN LET s == media_senders[dest]
                   m == handle_interruptions(s)
                   seen == IF params.interruptions_allowed
                           THEN AudioPendingIds(s) ELSE {}
               IN InterruptOutcome(dest,
                    [m EXCEPT !.down = << frame >> \o @], frame, seen)
          ELSE /\ down' = Append(down, frame)
               /\ UNCHANGED << media_senders, up, flushed, sys >>
    /\ end_disturbed' = (end_disturbed \/ fifo.pc \in StopPcs)
    /\ n_interruptions' = n_interruptions + 1
    /\ next_id' = next_id + 1
    /\ n_frames' = n_frames + 1
    /\ UNCHANGED << params, started, terminated, sample_rate,
                    audio_chunk_size, sender_order, fifo, now, wire, sent,
                    cancelled_ids, end_pending, emitted, inp, pipe, fn >>

ProcessStartInterruptionFrame(dest) ==
    /\ SystemReady
    /\ StartInterruptionFrameHandled(dest)

\* The await handle_interruptions was suspended in has returned.
InterruptContinue ==
    /\ sys.pc \in InterruptPcs
    /\ InterruptOutcome(sys.frame.dest,
         InterruptResume(media_senders[sys.frame.dest], sys.pc), sys.frame,
         {})
    /\ UNCHANGED << params, started, terminated, sample_rate,
                    audio_chunk_size, sender_order, fifo, now, next_id,
                    n_frames, n_interruptions, wire, sent, cancelled_ids,
                    end_pending, end_disturbed, emitted, inp, pipe, fn >>

\* process_frame(StopInterruptionFrame): push it downstream, then
\* _handle_frame, where it is neither a StartInterruptionFrame nor audio nor
\* timed: handle_sync_frame puts it on the sender's audio queue.
ProcessStopInterruptionFrame(dest) ==
    /\ SystemReady
    /\ LET frame == PlainFrame("StopInterruptionFrame", next_id, None, dest)
       IN /\ down' = Append(down, frame)
          /\ media_senders' = handle_frame(media_senders, frame, 0)
    /\ next_id' = next_id + 1
    /\ n_frames' = n_frames + 1
    /\ UNCHANGED << params, started, terminated, sample_rate,
                    audio_chunk_size, sender_order, fifo, sys, now,
                    n_interruptions, up, wire, sent, flushed, cancelled_ids,
                    end_pending, end_disturbed, emitted, inp, pipe, fn >>


\* ------------------------------------------------ the output transport
\* Registered destinations, and the frames the environment hands over.
Destinations == DOMAIN media_senders

\* Bytes of an input audio frame (whole 16-bit samples).
AudioLengths == {2, 6}

OtherFrames ==
    [kind : {"TextFrame"}, pts : {None} \cup {Some(p) : p \in 1..MaxTime}]
    \cup [kind : {"TransportMessageFrame"}, pts : {None}]

OutNext ==
    \/ ProcessStartFrame
    \/ \E kind \in AudioKinds, dest \in Destinations, len \in AudioLengths :
         ProcessAudioFrame(kind, dest, len, sample_rate, 1)
    \/ \E f \in OtherFrames, dest \in Destinations :
         ProcessOtherFrame(f.kind, f.pts, dest)
    \/ ProcessEndFrame
    \/ StopContinue
    \/ ProcessCancelFrame
    \/ CancelContinue
    \/ \E dest \in Destinations : ProcessStartInterruptionFrame(dest)
    \/ InterruptContinue
    \/ \E dest \in Destinations : ProcessStopInterruptionFrame(dest)
    \/ \E d \in Destinations : AudioStep(d)
    \/ \E d \in Destinations : AudioTimeout(d)
    \/ \E d \in Destinations : ClockStep(d)
    \/ Tick

\* ================================================================ Pipeline
\* A Pipeline of n forwarding processors is the chain source, p1..pn, sink.
\* Each processor has the FIFO input queue of FrameProcessor.queue_frame and
\* a task that takes one (frame, direction) at a time and calls
\* process_frame; push_frame hands the frame to the neighbour's queue_frame.
NoPipeline == [n |-> 0, queues |-> << >>, down_in |-> << >>, up_in |-> << >>,
               down_out |-> << >>, up_out |-> << >>, n_frames |-> 0]

\* Pipeline.__init__: [source] + processors + [sink], linked in that order.
NewPipeline(n) ==
    [NoPipeline EXCEPT !.n = n, !.queues = [i \in 1..(n + 2) |-> << >>]]

PipelineSourceIndex == 1
PipelineSinkIndex(p) == p.n + 2

\* queue_frame on processor i.
queue_frame(p, i, frame, direction) ==
    [p EXCEPT !.queues[i] = Append(@, [frame |-> frame,
                                       direction |-> direction])]

\* Pipeline.push_frame(frame, direction): the frame leaves the pipeline.
pipeline_push_frame(p, frame, direction) ==
    IF direction = "DOWNSTREAM"
    THEN [p EXCEPT !.down_out = Append(@, frame)]
    ELSE [p EXCEPT !.up_out = Append(@, frame)]

\* push_frame of processor i: to the next processor's queue downstream, to
\* the previous one's upstream (per _link_processors).
push_frame(p, i, frame, direction) ==
    IF direction = "DOWNSTREAM"
    THEN IF i < PipelineSinkIndex(p)
         THEN queue_frame(p, i + 1, frame, direction) ELSE p
    ELSE IF i > PipelineSourceIndex
         THEN queue_frame(p, i - 1, frame, direction) ELSE p

\* PipelineSource.process_frame.
PipelineSource_process_frame(p, frame, direction) ==
    IF direction = "UPSTREAM"
    THEN pipeline_push_frame(p, frame, direction)
    ELSE push_frame(p, PipelineSourceIndex, frame, direction)

\* A sink that hands downstream frames to its own push_frame (it has no next
\* processor) instead of the pipeline's downstream push.
PipelineSink_process_frame_NoExit(p, frame, direction) ==
    push_frame(p, PipelineSinkIndex(p), frame, direction)

\* PipelineSink.process_frame.
PipelineSink_process_frame(p, frame, direction) ==
    IF direction = "UPSTREAM"
    THEN push_frame(p, PipelineSinkIndex(p), frame, direction)
    ELSE pipeline_push_frame(p, frame, direction)

\* Pipeline.process_frame: downstream frames enter at the source, upstream
\* frames at the sink.
Pipeline_process_frame(p, frame, direction) ==
    IF direction = "DOWNSTREAM"
    THEN queue_frame(p, PipelineSourceIndex, frame, "DOWNSTREAM")
    ELSE IF direction = "UPSTREAM"
    THEN queue_frame(p, PipelineSinkIndex(p), frame, "UPSTREAM")
    ELSE p

\* The task of processor i takes the head of its queue and processes it.
PipelineProcess(p, i) ==
    LET item == Head(p.queues[i])
        q == [p EXCEPT !.queues[i] = Tail(@)]
    IN IF i = PipelineSourceIndex
       THEN PipelineSource_process_frame(q, item.frame, item.direction)
       ELSE IF i = PipelineSinkIndex(p)
       THEN PipelineSink_process_frame(q, item.frame, item.direction)
       ELSE push_frame(q, i, item.frame, item.direction)

\* No call of a pure function is under way.
NoCall == [op |-> "none"]

\* ================================================= ProtobufFrameSerializer
\* A frame as the serializer sees it: its class, the envelope fields id, name
\* and pts (an Optional), and the payload fields of its dataclass.
SerFrame(variant, id, name, pts, payload) ==
    [variant |-> variant, id |-> id, name |-> name, pts |-> pts,
     payload |-> payload]

EnvelopeFields == {"id", "name", "pts"}

TransportMessageVariants ==
    {"TransportMessageFrame", "TransportMessageUrgentFrame"}

\* The frame after line 56..59: a transport message becomes a MessageFrame,
\* a plain dataclass with the single field data.
json_dumps(message) == << "json", message >>
Wrapped(frame) ==
    IF frame.variant \in TransportMessageVariants
    THEN [variant |-> "MessageFrame",
          payload |-> [data |-> json_dumps(frame.payload.message)]]
    ELSE frame

\* dataclasses.fields(frame) and getattr(frame, field.name).
HasEnvelope(frame) == frame.variant # "MessageFrame"
DataclassFields(frame) ==
    (IF HasEnvelope(frame) THEN EnvelopeFields ELSE {})
        \cup DOMAIN frame.payload
FieldValue(frame, n) ==
    IF n \in EnvelopeFields THEN frame[n] ELSE frame.payload[n]

\* Python truthiness of a field's value.
FieldTruthy(n, v) ==
    CASE n = "pts" -> Truthy(v)
      [] n \in {"id", "sample_rate", "num_channels"} -> v # 0
      [] n = "audio" -> v # << >>
      [] n = "data" -> TRUE
      [] OTHER -> v # ""

SERIALIZABLE_TYPES ==
    [TextFrame |-> "text", OutputAudioRawFrame |-> "audio",
     TranscriptionFrame |-> "transcription", MessageFrame |-> "message"]

DESERIALIZABLE_FIELDS ==
    [text |-> "TextFrame", audio |-> "InputAudioRawFrame",
     transcription |-> "TranscriptionFrame"]

\* The fields of the protobuf message of each variant of the one-of, and the
\* value an unset field reads as.
ProtoFields(which) ==
    CASE which = "text" -> {"id", "name", "text"}
      [] which = "audio" -> {"id", "name", "audio", "sample_rate",
                             "num_channels", "pts"}
      [] which = "transcription" -> {"id", "name", "text", "user_id",
                                      "timestamp"}
      [] which = "message" -> {"data"}
ProtoDefault(n) ==
    CASE n \in {"id", "sample_rate", "num_channels", "pts"} -> 0
      [] n = "audio" -> << >>
      [] OTHER -> ""

\* The value written to the protobuf field: an Optional's content.
ProtoValue(n, v) == IF n = "pts" THEN v[1] ELSE v

\* serialize returned None / deserialize returned None.
NoData == [which |-> "None", fields |-> << >>]
NoSerFrame == [variant |-> "None"]

\* ProtobufFrameSerializer.serialize: the fields that are truthy and that the
\* protobuf message has are set; setting one selects the variant of the
\* one-of, so a frame none of whose fields is set selects none.
serialize(f) ==
    LET frame == Wrapped(f)
    IN IF frame.variant \notin DOMAIN SERIALIZABLE_TYPES THEN NoData
       ELSE LET which == SERIALIZABLE_TYPES[frame.variant]
                set == {n \in DataclassFields(frame) :
                          /\ FieldTruthy(n, FieldValue(frame, n))
                          /\ n \in ProtoFields(which)}
            IN [which |-> IF set = {} THEN "unset" ELSE which,
                fields |-> [n \in set |->
                              ProtoValue(n, FieldValue(frame, n))]]

\* ProtobufFrameSerializer.deserialize. fresh is the id and name the frame's
\* constructor gives the new instance; its pts is None.
deserialize(data, fresh) ==
    IF data.which \notin DOMAIN DESERIALIZABLE_FIELDS THEN NoSerFrame
    ELSE LET which == data.which
             get(n) == IF n \in DOMAIN data.fields THEN data.fields[n]
                       ELSE ProtoDefault(n)
             id == get("id")
             name == get("name")
             pts == IF "pts" \in ProtoFields(which) THEN Some(get("pts"))
                    ELSE None
         IN SerFrame(DESERIALIZABLE_FIELDS[which],
                     IF id # 0 THEN id ELSE fresh.id,
                     IF name # "" THEN name ELSE fresh.name,
                     IF Truthy(pts) THEN pts ELSE None,
                     [n \in ProtoFields(which) \ EnvelopeFields |-> get(n)])

\* ===================================================== BaseInputTransport
\* The input transport is one record, `inp`: its parameters, its audio task
\* and queue, the frames it has pushed downstream, and the turn analyzer's
\* speech_triggered as the analyzer reports it.
VADStates == {"QUIET", "STARTING", "SPEAKING", "STOPPING"}

NoInputTask ==
    [status |-> "none", pc |-> "end", frame |-> 0, vad_state |-> "QUIET",
     new_vad_state |-> "QUIET", can_create_user_frames |-> FALSE]

\* _audio_task_handler at its first `await self._audio_in_queue.get()`.
NewInputTask == [NoInputTask EXCEPT !.status = "running", !.pc = "get"]

\* BaseInputTransport.__init__ with the given params; allow is the
\* allow_interruptions the StartFrame will carry.
InputTransport(vad, turn, allow) ==
    [vad_analyzer |-> vad, turn_analyzer |-> turn,
     audio_in_passthrough |-> TRUE, audio_in_enabled |-> TRUE,
     start_allow_interruptions |-> allow, interruptions_allowed |-> FALSE,
     started |-> FALSE, terminated |-> FALSE,
     audio_task |-> 0, task |-> NoInputTask, audio_in_queue |-> << >>,
     speech_triggered |-> FALSE,
     end_or_cancel |-> FALSE, analyzer_raised |-> FALSE,
     down |-> << >>, next_id |-> 1, n_frames |-> 0]

\* push_frame(frame) downstream; `triggered` notes what the turn analyzer
\* reported at that moment.
InpPush(i, kind) ==
    [i EXCEPT !.down = Append(@, [kind |-> kind, id |-> i.next_id,
                                  triggered |-> i.turn_analyzer
                                                /\ i.speech_triggered]),
              !.next_id = @ + 1]

\* A _handle_user_interruption that pushes the interruption frame whether
\* or not interruptions are allowed.
handle_user_interruption_Always(i, kind) ==
    InpPush(InpPush(i, kind),
            IF kind = "UserStartedSpeakingFrame" THEN "StartInterruptionFrame"
            ELSE "StopInterruptionFrame")

\* _handle_user_interruption(UserStartedSpeakingFrame / UserStoppedSpeaking-
\* Frame) of the process_frame handlers, run to its end.
handle_user_interruption(i, kind) ==
    LET pushed == InpPush(i, kind)
    IN IF kind = "UserStartedSpeakingFrame"
       THEN IF i.interruptions_allowed
            THEN InpPush(pushed, "StartInterruptionFrame")
            ELSE pushed
       ELSE IF kind = "UserStoppedSpeakingFrame"
       THEN IF i.interruptions_allowed
            THEN InpPush(pushed, "StopInterruptionFrame")
            ELSE pushed
       ELSE i

\* _handle_bot_interruption.
handle_bot_interruption(i) ==
    IF i.interruptions_allowed THEN InpPush(i, "StartInterruptionFrame")
    ELSE i

\* BaseInputTransport.start.
input_start(i) ==
    IF i.audio_in_enabled
    THEN [i EXCEPT !.audio_in_queue = << >>, !.audio_task = 1,
                   !.task = NewInputTask]
    ELSE i

\* stop() and cancel(): `self._audio_task and self._audio_in_enabled` reads an
\* attribute the class never sets, so with a task running the call raises
\* and the handler ends there; with no task the condition is false.
InputStopRaises(i) == i.audio_task # 0

\* The audio task after `vad_state = new_vad_state` (or with no VAD):
\* _run_turn_analyzer does nothing; the frame is pushed (passthrough).
InputAfterVad(i) ==
    IF i.audio_in_passthrough
    THEN [InpPush(i, "InputAudioRawFrame") EXCEPT !.task.pc = "audio_pushed"]
    ELSE [i EXCEPT !.task.pc = "get"]

\* _handle_user_interruption inside the audio task, after its first push.
InputAfterUserPush(i) ==
    IF i.interruptions_allowed
    THEN [InpPush(i, IF i.task.new_vad_state = "SPEAKING"
                     THEN "StartInterruptionFrame"
                     ELSE "StopInterruptionFrame")
            EXCEPT !.task.pc = "interruption_pushed"]
    ELSE InputAfterVad([i EXCEPT !.task.vad_state = i.task.new_vad_state])

\* _handle_vad after the VAD frame was pushed: `if frame:`.
InputAfterVadPush(i) ==
    IF i.task.can_create_user_frames
    THEN [InpPush(i, IF i.task.new_vad_state = "SPEAKING"
                     THEN "UserStartedSpeakingFrame"
                     ELSE "UserStoppedSpeakingFrame")
            EXCEPT !.task.pc = "user_pushed"]
    ELSE InputAfterVad([i EXCEPT !.task.vad_state = i.task.new_vad_state])

\* analyze_audio raised: the exception leaves run_in_executor, _vad_analyze,
\* _handle_vad and _audio_task_handler, none of which catches it, and the
\* task ends. analyzer_raised records that it happened.
InputAnalyzerRaised(i) ==
    [i EXCEPT !.task.status = "failed", !.analyzer_raised = TRUE]

\* A _handle_vad that commits every result that differs from the state.
InputHandleVad_CommitAll(i, new_vad_state) ==
    IF new_vad_state # i.task.vad_state
    THEN LET can == ~i.turn_analyzer \/ ~i.speech_triggered
             j == [i EXCEPT !.task.new_vad_state = new_vad_state,
                            !.task.can_create_user_frames = can,
                            !.task.pc = "vad_pushed"]
         IN InpPush(j, IF new_vad_state = "SPEAKING"
                       THEN "VADUserStartedSpeakingFrame"
                       ELSE "VADUserStoppedSpeakingFrame")
    ELSE InputAfterVad(i)

\* _handle_vad once the analyzer returned new_vad_state.
InputHandleVad(i, new_vad_state) ==
    IF /\ new_vad_state # i.task.vad_state
       /\ new_vad_state # "STARTING"
       /\ new_vad_state # "STOPPING"
    THEN LET can == ~i.turn_analyzer \/ ~i.speech_triggered
             j == [i EXCEPT !.task.new_vad_state = new_vad_state,
                            !.task.can_create_user_frames = can,
                            !.task.pc = "vad_pushed"]
         IN InpPush(j, IF new_vad_state = "SPEAKING"
                       THEN "VADUserStartedSpeakingFrame"
                       ELSE "VADUserStoppedSpeakingFrame")
    ELSE InputAfterVad(i)

Init ==
    /\ OutInit({Configuration(<< >>, TRUE)})
    /\ inp = InputTransport(TRUE, TRUE, TRUE)
    /\ pipe = NoPipeline
    /\ fn = NoCall

Next == OutNext

Spec == Init /\ [][Next]_vars

\* The same transport with interruptions allowed or not
\* (StartFrame.allow_interruptions).
AllowInit ==
    /\ OutInit({Configuration(<< >>, allowed) : allowed \in BOOLEAN})
    /\ inp = InputTransport(TRUE, TRUE, TRUE)
    /\ pipe = NoPipeline
    /\ fn = NoCall

AllowSpec == AllowInit /\ [][Next]_vars

\* ----------------------------------------- the input transport's actions
\* A process_frame handler of the input transport is one step (nothing it
\* reads changes while it is suspended in push_frame); the audio task is
\* followed await by await.
InputReady == ~inp.terminated /\ inp.n_frames < MaxInputFrames

InputHandled(i) ==
    /\ inp' = [i EXCEPT !.n_frames = inp.n_frames + 1]
    /\ UNCHANGED << outvars, pipe, fn >>

\* process_frame(StartFrame): push the frame, then start().
InputProcessStartFrame ==
    /\ InputReady /\ ~inp.started
    /\ InputHandled(input_start(
         [InpPush(inp, "StartFrame") EXCEPT
            !.started = TRUE,
            !.interruptions_allowed = inp.start_allow_interruptions]))

\* process_frame(CancelFrame): cancel(), then push the frame.
InputProcessCancelFrame ==
    /\ InputReady
    /\ InputHandled(IF InputStopRaises(inp)
                    THEN [inp EXCEPT !.end_or_cancel = TRUE]
                    ELSE [InpPush(inp, "CancelFrame")
                            EXCEPT !.terminated = TRUE,
                                   !.end_or_cancel = TRUE])

\* process_frame(EndFrame): push the frame, then stop().
InputProcessEndFrame ==
    /\ InputReady /\ inp.started
    /\ InputHandled([InpPush(inp, "EndFrame")
                       EXCEPT !.terminated = TRUE, !.end_or_cancel = TRUE])

InputProcessBotInterruptionFrame ==
    /\ InputReady /\ inp.started
    /\ InputHandled(handle_bot_interruption(inp))

\* process_frame(EmulateUserStartedSpeakingFrame).
InputProcessEmulateUserStartedSpeakingFrame ==
    /\ InputReady /\ inp.started
    /\ InputHandled(handle_user_interruption(inp, "UserStartedSpeakingFrame"))

\* process_frame(EmulateUserStoppedSpeakingFrame).
InputProcessEmulateUserStoppedSpeakingFrame ==
    /\ InputReady /\ inp.started
    /\ InputHandled(handle_user_interruption(inp, "UserStoppedSpeakingFrame"))

\* process_frame of another system frame or of a data frame: pushed on.
InputProcessPassFrame(kind) ==
    /\ InputReady /\ inp.started
    /\ InputHandled(InpPush(inp, kind))

\* push_audio_frame: the transport implementation hands in captured audio.
InputPushAudioFrame ==
    /\ InputReady /\ inp.started
    /\ InputHandled([inp EXCEPT !.audio_in_queue = Append(@, inp.next_id),
                                !.next_id = @ + 1])

\* The turn analyzer's speech_triggered changes (it is driven from outside
\* this class: _run_turn_analyzer does nothing).
TurnAnalyzerReports(b) ==
    /\ inp.turn_analyzer /\ inp.speech_triggered # b
    /\ inp' = [inp EXCEPT !.speech_triggered = b]
    /\ UNCHANGED << outvars, pipe, fn >>

\* The audio task resumes and runs to its next await.
InputAudioStep ==
    /\ inp.task.status = "running"
    /\ \/ /\ inp.task.pc = "get"
          /\ inp.audio_in_queue # << >>
          /\ LET i == [inp EXCEPT !.audio_in_queue = Tail(@),
                                  !.task.frame = Head(inp.audio_in_queue)]
             IN inp' = IF i.vad_analyzer
                       THEN [i EXCEPT !.task.pc = "analyze"]
                       ELSE InputAfterVad(i)
       \/ /\ inp.task.pc = "analyze"
          /\ \/ \E new_vad_state \in VADStates :
                  inp' = InputHandleVad(inp, new_vad_state)
             \/ inp' = InputAnalyzerRaised(inp)
       \/ /\ inp.task.pc = "vad_pushed"
          /\ inp' = InputAfterVadPush(inp)
       \/ /\ inp.task.pc = "user_pushed"
          /\ inp' = InputAfterUserPush(inp)
       \/ /\ inp.task.pc = "interruption_pushed"
          /\ inp' = InputAfterVad(
                      [inp EXCEPT !.task.vad_state = inp.task.new_vad_state])
       \/ /\ inp.task.pc = "audio_pushed"
          /\ inp' = [inp EXCEPT !.task.pc = "get"]
    /\ UNCHANGED << outvars, pipe, fn >>

InputPassKinds == {"TextFrame", "StopInterruptionFrame"}

InputNext ==
    \/ InputProcessStartFrame
    \/ InputProcessCancelFrame
    \/ InputProcessEndFrame
    \/ InputProcessBotInterruptionFrame
    \/ InputProcessEmulateUserStartedSpeakingFrame
    \/ InputProcessEmulateUserStoppedSpeakingFrame
    \/ \E kind \in InputPassKinds : InputProcessPassFrame(kind)
    \/ InputPushAudioFrame
    \/ \E b \in BOOLEAN : TurnAnalyzerReports(b)
    \/ InputAudioStep

InputInit ==
    /\ OutInit({Configuration(<< >>, TRUE)})
    /\ inp \in {InputTransport(vad, turn, allow) :
                  vad \in BOOLEAN, turn \in BOOLEAN, allow \in BOOLEAN}
    /\ pipe = NoPipeline
    /\ fn = NoCall

InputSpec == InputInit /\ [][InputNext]_vars

\* The event loop runs the input audio task whenever it can run.
InputFairSpec == InputSpec /\ WF_vars(InputAudioStep)

\* ------------------------------------------------- the pipeline's actions
FrameDirections == {"DOWNSTREAM", "UPSTREAM"}

\* A data frame is given to Pipeline.process_frame.
PipelineFrameIn(direction) ==
    /\ pipe.n_frames < MaxPipelineFrames
    /\ LET frame == pipe.n_frames + 1
       IN pipe' = [Pipeline_process_frame(pipe, frame, direction) EXCEPT
                     !.n_frames = frame,
                     !.down_in = IF direction = "DOWNSTREAM"
                                 THEN Append(@, frame) ELSE @,
                     !.up_in = IF direction = "UPSTREAM"
                               THEN Append(@, frame) ELSE @]
    /\ UNCHANGED << outvars, inp, fn >>

\* The task of processor i runs one frame.
PipelineStep(i) ==
    /\ i \in 1..PipelineSinkIndex(pipe)
    /\ pipe.queues[i] # << >>
    /\ pipe' = PipelineProcess(pipe, i)
    /\ UNCHANGED << outvars, inp, fn >>

PipelineInit ==
    /\ OutInit({Configuration(<< >>, TRUE)})
    /\ inp = InputTransport(TRUE, TRUE, TRUE)
    /\ pipe \in {NewPipeline(n) : n \in 0..MaxProcessors}
    /\ fn = NoCall

PipelineNext ==
    \/ \E direction \in FrameDirections : PipelineFrameIn(direction)
    \/ \E i \in 1..(MaxProcessors + 2) : PipelineStep(i)

PipelineSpec == PipelineInit /\ [][PipelineNext]_vars

\* --------------------------------------------- calls of the pure functions
ResampleAudios ==
    UNION {[1..n -> ResampleBytes] : n \in 0..MaxResampleLen}
ResampleCalls ==
    {[op |-> "resample", pc |-> "start", audio |-> a, in_rate |-> i,
      out_rate |-> o, result |-> << >>] :
        a \in ResampleAudios, i \in ResampleRates, o \in ResampleRates}

SerEnvelopes ==
    {[id |-> i, name |-> n, pts |-> p] :
        i \in SerIds, n \in SerNames, p \in SerPts}
SerPayloads(variant) ==
    CASE variant = "TextFrame" -> {[text |-> s] : s \in SerTexts}
      [] variant = "OutputAudioRawFrame" ->
            {[audio |-> a, sample_rate |-> 16, num_channels |-> 1] :
                a \in SerAudios}
      [] variant = "TranscriptionFrame" ->
            {[text |-> s, user_id |-> "u", timestamp |-> "t"] :
                s \in SerTexts}
      [] OTHER -> {[message |-> "m"]}
SerVariants ==
    {"TextFrame", "OutputAudioRawFrame", "TranscriptionFrame"}
        \cup TransportMessageVariants
SerFrames ==
    UNION {{SerFrame(v, e.id, e.name, e.pts, pl) :
              e \in SerEnvelopes, pl \in SerPayloads(v)} : v \in SerVariants}
RoundTripCalls ==
    {[op |-> "round_trip", pc |-> "start", frame |-> f, data |-> NoData,
      result |-> NoSerFrame] : f \in SerFrames}

\* await resampler.resample(audio, in_rate, out_rate)
ResampleApply ==
    /\ fn.op = "resample" /\ fn.pc = "start"
    /\ fn' = [fn EXCEPT !.pc = "done",
                        !.result = resample(fn.audio, fn.in_rate, fn.out_rate)]
    /\ UNCHANGED << outvars, inp, pipe >>

\* data = await serializer.serialize(frame)
SerializeApply ==
    /\ fn.op = "round_trip" /\ fn.pc = "start"
    /\ fn' = [fn EXCEPT !.pc = "serialized", !.data = serialize(fn.frame)]
    /\ UNCHANGED << outvars, inp, pipe >>

\* await serializer.deserialize(data), when serialize returned data.
DeserializeApply(fresh) ==
    /\ fn.op = "round_trip" /\ fn.pc = "serialized"
    /\ fn.data # NoData
    /\ fn' = [fn EXCEPT !.pc = "done", !.result = deserialize(fn.data, fresh)]
    /\ UNCHANGED << outvars, inp, pipe >>

FnInit ==
    /\ OutInit({Configuration(<< >>, TRUE)})
    /\ inp = InputTransport(TRUE, TRUE, TRUE)
    /\ pipe = NoPipeline
    /\ fn \in ResampleCalls \cup RoundTripCalls

FnNext ==
    \/ ResampleApply
    \/ SerializeApply
    \/ \E i \in FreshIds, n \in FreshNames :
          DeserializeApply([id |-> i, name |-> n])

FnSpec == FnInit /\ [][FnNext]_vars

\* ------------------------------------------------------ Pipeline.__init__
\* Processors are named; each has the _prev, _next and _parent references of
\* FrameProcessor ("None" is null).
NoProcessor == "None"
NewProcessor == [prev |-> NoProcessor, next |-> NoProcessor,
                 parent |-> NoProcessor]
\* A processor that was part of another pipeline before.
UsedProcessor == [prev |-> "old_prev", next |-> "old_next",
                  parent |-> "old_pipeline"]

\* A link that only sets the forward reference.
link_Forward(objs, a, b) == [objs EXCEPT ![a].next = b]

\* FrameProcessor.link: self._next = processor; processor._prev = self.
link(objs, a, b) == [objs EXCEPT ![a].next = b, ![b].prev = a]

\* FrameProcessor.set_parent: self._parent = parent.
set_parent(objs, a, parent) == [objs EXCEPT ![a].parent = parent]

\* The loop of _link_processors from element i on, prev being the element
\* before it; after the loop, prev.set_parent(self).
RECURSIVE link_processors_loop(_, _, _, _, _)
link_processors_loop(objs, processors, i, prev, self) ==
    IF i > Len(processors) THEN set_parent(objs, prev, self)
    ELSE link_processors_loop(
           link(set_parent(objs, prev, self), prev, processors[i]),
           processors, i + 1, processors[i], self)

\* _link_processors: prev = self._processors[0]; for curr in [1:] ...
link_processors(objs, processors, self) ==
    link_processors_loop(objs, processors, 2, processors[1], self)

\* Pipeline.__init__(processors): a new source and sink around the list.
Pipeline_init(call) ==
    LET list == << "source" >> \o call.processors \o << "sink" >>
        objs == [x \in DOMAIN call.objs \cup {"source", "sink"} |->
                   IF x \in {"source", "sink"} THEN NewProcessor
                   ELSE call.objs[x]]
    IN [call EXCEPT !.pc = "done", !.list = list,
                    !.objs = link_processors(objs, list, "pipeline")]

\* Lists of up to MaxProcessors + 1 different processors out of three, new or
\* used before.
LinkPool == {"p1", "p2", "p3"}
LinkLists ==
    {s \in UNION {[1..n -> LinkPool] : n \in 0..(MaxProcessors + 1)} :
       \A i, j \in DOMAIN s : i # j => s[i] # s[j]}
PipelineCalls ==
    {[op |-> "Pipeline", pc |-> "start", processors |-> s, list |-> << >>,
      objs |-> o] :
       s \in LinkLists, o \in [LinkPool -> {NewProcessor, UsedProcessor}]}

\* Pipeline(processors)
PipelineConstruct ==
    /\ fn.op = "Pipeline" /\ fn.pc = "start"
    /\ fn' = Pipeline_init(fn)
    /\ UNCHANGED << outvars, inp, pipe >>

LinkInit ==
    /\ OutInit({Configuration(<< >>, TRUE)})
    /\ inp = InputTransport(TRUE, TRUE, TRUE)
    /\ pipe = NoPipeline
    /\ fn \in PipelineCalls

LinkNext == PipelineConstruct

LinkSpec == LinkInit /\ [][LinkNext]_vars

\* --------------------------------------------------------- fair scheduling
\* The event loop runs every task that can run, and the clock advances.
Fairness ==
    /\ WF_vars(\E d \in Destinations : AudioStep(d))
    /\ WF_vars(\E d \in Destinations : AudioTimeout(d))
    /\ WF_vars(\E d \in Destinations : ClockStep(d))
    /\ WF_vars(Tick)
    /\ WF_vars(StopContinue)
    /\ WF_vars(CancelContinue)
    /\ WF_vars(InterruptContinue)

FairSpec == Init /\ [][Next]_vars /\ Fairness

\* ------------------------------------------------------- the audio worker
\* Transports whose chunks are 100 ms and 200 ms long, so that
\* BOT_SPEAKING_CHUNK_PERIOD is 2 and 1; audio frames of one or two 100 ms
\* chunks, TTS or not.  No interruption, end or cancel: one audio worker.
CadenceChunks == {10, 20}
CadenceLengths == {20, 40}

CadenceInit ==
    /\ OutInit({[Configuration(<< >>, TRUE) EXCEPT !.audio_out_10ms_chunks = c] :
                  c \in CadenceChunks})
    /\ inp = InputTransport(TRUE, TRUE, TRUE)
    /\ pipe = NoPipeline
    /\ fn = NoCall

CadenceNext ==
    \/ ProcessStartFrame
    \/ \E kind \in AudioKinds, dest \in Destinations, len \in CadenceLengths :
         ProcessAudioFrame(kind, dest, len, sample_rate, 1)
    \/ \E d \in Destinations : AudioStep(d)
    \/ \E d \in Destinations : AudioTimeout(d)

CadenceSpec == CadenceInit /\ [][CadenceNext]_vars

\* ------------------------------------------------------------ start alone
\* Transports of every combination of the parameters start() reads, and the
\* StartFrame's rate; only the StartFrame is handled.
StartParamRates == {None, Some(150), Some(16000), Some(24000)}
StartFrameRates == {100, 16000, 44100}
StartChannels == {1, 2}
StartChunks == {1, 2, 4}
StartDestinations == {<< >>, << "a", "a" >>, << "a", "b" >>}

StartConfigurations ==
    {[Configuration(dests, TRUE) EXCEPT
        !.audio_out_sample_rate = rate,
        !.start_audio_out_sample_rate = frame_rate,
        !.audio_out_channels = channels,
        !.audio_out_10ms_chunks = chunks] :
      dests \in StartDestinations, rate \in StartParamRates,
      frame_rate \in StartFrameRates, channels \in StartChannels,
      chunks \in StartChunks}

StartInit ==
    /\ OutInit(StartConfigurations)
    /\ inp = InputTransport(TRUE, TRUE, TRUE)
    /\ pipe = NoPipeline
    /\ fn = NoCall

StartNext == ProcessStartFrame

StartSpec == StartInit /\ [][StartNext]_vars

\* ---------------------------------------------------- timed frames alone
\* Data frames with every kind of pts (None, 0 and later times) handed to a
\* transport whose workers run and whose clock advances.
TimedPts == {None} \cup {Some(p) : p \in 0..MaxTime}

TimedNext ==
    \/ ProcessStartFrame
    \/ \E pts \in TimedPts, dest \in Destinations :
         ProcessOtherFrame("TextFrame", pts, dest)
    \/ \E d \in Destinations : AudioStep(d)
    \/ \E d \in Destinations : ClockStep(d)
    \/ Tick

TimedSpec == Init /\ [][TimedNext]_vars

\* ------------------------------------------------------------ routing alone
\* Transports with no or one (twice declared) extra destination; frames are
\* addressed to the default destination, to the declared one and to one
\* nobody declared.  No worker runs.
RouteDestinations == {DefaultDestination, "a", "b"}

RouteInit ==
    /\ OutInit({Configuration(<< >>, TRUE), Configuration(<< "a", "a" >>, TRUE)})
    /\ inp = InputTransport(TRUE, TRUE, TRUE)
    /\ pipe = NoPipeline
    /\ fn = NoCall

RouteNext ==
    \/ ProcessStartFrame
    \/ \E kind \in AudioKinds, dest \in RouteDestinations, len \in AudioLengths :
         ProcessAudioFrame(kind, dest, len, sample_rate, 1)
    \/ \E f \in OtherFrames, dest \in RouteDestinations :
         ProcessOtherFrame(f.kind, f.pts, dest)
    \/ \E dest \in RouteDestinations : ProcessStartInterruptionFrame(dest)
    \/ InterruptContinue

RouteSpec == RouteInit /\ [][RouteNext]_vars

\* ------------------------------------------------- frames after the end
\* process_frame is called again after the EndFrame or CancelFrame went
\* through: the same branches run, whatever the state of the senders.
LateReady ==
    /\ started /\ terminated
    /\ fifo.pc = "idle" /\ sys.pc = "idle"
    /\ n_frames < MaxFrames

LateStartInterruptionFrame(dest) ==
    /\ LateReady
    /\ StartInterruptionFrameHandled(dest)

LateAudioFrame(kind, dest, len, rate, channels) ==
    /\ LateReady
    /\ AudioFrameHandled(kind, dest, len, rate, channels)

LateNext ==
    \/ OutNext
    \/ \E dest \in Destinations : LateStartInterruptionFrame(dest)
    \/ \E kind \in AudioKinds, dest \in Destinations, len \in AudioLengths :
         LateAudioFrame(kind, dest, len, sample_rate, 1)

LateSpec == Init /\ [][LateNext]_vars

\* ------------------------------------------------------------ two senders
\* A transport with the default sender and the sender of destination "a":
\* audio for both, interruptions for both and for an undeclared destination,
\* while the audio workers run.
PairInit ==
    /\ OutInit({Configuration(<< "a" >>, TRUE)})
    /\ inp = InputTransport(TRUE, TRUE, TRUE)
    /\ pipe = NoPipeline
    /\ fn = NoCall

PairNext ==
    \/ ProcessStartFrame
    \/ \E dest \in Destinations, len \in AudioLengths :
         ProcessAudioFrame("TTSAudioRawFrame", dest, len, sample_rate, 1)
    \/ \E dest \in RouteDestinations : ProcessStartInterruptionFrame(dest)
    \/ InterruptContinue
    \/ \E d \in Destinations : AudioStep(d)

PairSpec == PairInit /\ [][PairNext]_vars

\* --------------------------------------------------------- urgent messages
\* An urgent message handed to _handle_frame like a data frame.
UrgentOutcome_Queued(ms, frame) ==
    [ms |-> handle_frame(ms, frame, 0), sent |-> << >>]

\* `elif isinstance(frame, TransportMessageUrgentFrame):
\*      await self.send_message(frame)`: no sender is looked up.
UrgentOutcome(ms, frame) == [ms |-> ms, sent |-> << frame >>]

TransportMessageUrgentFrame(id, dest) ==
    PlainFrame("TransportMessageUrgentFrame", id, None, dest)

\* process_frame(TransportMessageUrgentFrame), a system frame.
ProcessTransportMessageUrgentFrame(dest) ==
    /\ SystemReady
    /\ LET r == UrgentOutcome(media_senders,
                              TransportMessageUrgentFrame(next_id, dest))
       IN /\ media_senders' = r.ms
          /\ sent' = sent \o r.sent
    /\ next_id' = next_id + 1
    /\ n_frames' = n_frames + 1
    /\ UNCHANGED << params, started, terminated, sample_rate,
                    audio_chunk_size, sender_order, fifo, sys, now,
                    n_interruptions, down, up, wire, flushed,
                    cancelled_ids, end_pending, end_disturbed, emitted, inp,
                    pipe, fn >>

\* Urgent messages among queued audio and timed frames, for declared and
\* undeclared destinations, while the workers run.
UrgentNext ==
    \/ ProcessStartFrame
    \/ \E dest \in Destinations, len \in AudioLengths :
         ProcessAudioFrame("TTSAudioRawFrame", dest, len, sample_rate, 1)
    \/ \E dest \in Destinations :
         ProcessOtherFrame("TextFrame", Some(MaxTime), dest)
    \/ \E dest \in RouteDestinations : ProcessTransportMessageUrgentFrame(dest)
    \/ \E d \in Destinations : AudioStep(d)
    \/ \E d \in Destinations : ClockStep(d)
    \/ Tick

UrgentSpec == RouteInit /\ [][UrgentNext]_vars

\* ----------------------------------------------- handle_audio_frame alone
\* The transport is started and audio frames of several lengths, rates and
\* channel counts are handled; no worker runs, so the queue keeps every chunk.
ChunkLengths == {2, 10}
ChunkRates == {100, 200}
ChunkChannels == {1, 2}

ChunkNext ==
    \/ ProcessStartFrame
    \/ \E kind \in AudioKinds, dest \in Destinations, len \in ChunkLengths,
          rate \in ChunkRates, channels \in ChunkChannels :
         ProcessAudioFrame(kind, dest, len, rate, channels)

ChunkSpec == Init /\ [][ChunkNext]_vars


\* ================================================================ claims
BotTransitionKinds == {"BotStartedSpeakingFrame", "BotStoppedSpeakingFrame"}

\* The BotStarted/BotStoppedSpeaking frames of destination d in a log.
BotTransitions(log, d) ==
    SelectSeq(log, LAMBDA f : f.kind \in BotTransitionKinds /\ f.dest = d)

\* Started, Stopped, Started, ...: strictly alternating, Started first.
Alternates(q) ==
    \A i \in 1..Len(q) :
        q[i].kind = IF i % 2 = 1 THEN "BotStartedSpeakingFrame"
                    ELSE "BotStoppedSpeakingFrame"

\* C1: for every sender, in every interleaving of its audio worker, queue
\* timeouts, handle_interruptions, stop and cancel, the BotStartedSpeaking /
\* BotStoppedSpeaking frames pushed downstream strictly alternate beginning
\* with Started, and so do those pushed upstream.
C1_BotSpeakingAlternates ==
    \A d \in Destinations :
        /\ Alternates(BotTransitions(down, d))
        /\ Alternates(BotTransitions(up, d))


LogIds(log) == {log[i].id : i \in 1..Len(log)}

\* What a step appended to a log.
Appended(old, new) == {new[i] : i \in (Len(old) + 1)..Len(new)}

\* C2: with interruptions allowed, once a StartInterruptionFrame has been
\* handled on a sender, no audio chunk or sync frame that was on (or taken
\* from) that sender's audio queue before it is pushed downstream or passed
\* to write_raw_audio_frames any more.
C2_NoStaleAudioAfterInterruption ==
    [][\A d \in DOMAIN flushed' :
         /\ \A f \in Appended(down, down') : f.id \notin flushed'[d]
         /\ \A w \in Appended(wire, wire') : w.id \notin flushed'[d]]_vars

\* C2's case: a chunk was flushed by an interruption and a chunk enqueued
\* after the interruption has been written.
C2_Witness ==
    \E d \in DOMAIN flushed : \E x \in flushed[d] : \E i \in 1..Len(wire) :
        /\ wire[i].id > x
        /\ wire[i].id \notin flushed[d]
        /\ sys.pc = "idle"

\* handle_interruptions returns in this step (interruptions allowed, the
\* frame's destination registered).
InterruptionReturns ==
    /\ sys'.pc = "idle"
    /\ sys'.frame.kind = "StartInterruptionFrame"
    /\ sys.pc \in InterruptPcs \/ sys'.frame # sys.frame
    /\ sys'.frame.dest \in Destinations
    /\ params.interruptions_allowed

\* C3: with interruptions allowed, when handle_interruptions returns the
\* sender's audio_buffer is empty, whether or not bot_speaking was true.
C3_BufferEmptyAfterInterruption ==
    [][InterruptionReturns
         => media_senders'[sys'.frame.dest].audio_buffer = << >>]_vars

\* The timed frames of destination d pushed downstream, in order.
TimedFrames(log, d) ==
    SelectSeq(log, LAMBDA f : f.kind = "TextFrame" /\ Truthy(f.pts)
                              /\ f.dest = d)

\* Frame id was on the clock queue, with a smaller (pts, id), when the frame
\* f was pushed.
WasBehind(f, id) == \E e \in emitted : e.id = f.id /\ id \in e.behind

\* C4: for every sender the timed frames are pushed downstream in
\* non-decreasing pts order, frames with equal pts in ascending id order.
\* Two frames are compared when both had been enqueued before either was
\* pushed: a frame pushed after one that was queued with a smaller (pts, id)
\* at that moment breaks the order.
C4_TimedFramesInPtsOrder ==
    \A d \in Destinations :
        LET q == TimedFrames(down, d)
        IN \A i, j \in 1..Len(q) :
             (i < j /\ WasBehind(q[i], q[j].id)) =>
                 \/ q[i].pts[1] < q[j].pts[1]
                 \/ q[i].pts[1] = q[j].pts[1] /\ q[i].id < q[j].id

\* C5: the clock worker never pushes a timed frame at a clock time smaller
\* than the frame's pts, and it never sleeps on a frame whose pts was already
\* <= the clock time it read (such a frame is pushed without waiting).
C5_NeverBeforePts ==
    /\ \A e \in emitted : e.at >= e.pts
    /\ \A d \in Destinations : \A h \in LiveClock(media_senders[d]) :
          media_senders[d].clock_tasks[h].pc = "sleep"
            => media_senders[d].clock_tasks[h].entry.pts
                 > media_senders[d].clock_tasks[h].current_time

\* C5's cases: one frame released at its pts after a sleep, and one whose pts
\* was already past, released at once.
C5_Witness ==
    \E e1, e2 \in emitted : e1.at = e1.pts /\ e2.at > e2.pts

EndFramePushed == \E i \in 1..Len(down) : down[i].kind = "EndFrame"

\* C7: when an EndFrame is handled and no interruption or cancel overlaps,
\* every audio chunk and sync frame that was on a sender's audio queue and
\* every timed frame that was on a clock queue has been pushed downstream
\* (audio chunks also written) before the EndFrame is pushed downstream.
C7_EndFrameDrains ==
    \A k \in 1..Len(down) :
        (down[k].kind = "EndFrame" /\ ~end_disturbed) =>
            \A id \in end_pending :
                \E i \in 1..(k - 1) :
                    /\ down[i].id = id
                    /\ IsOutputAudioRawFrame(down[i])
                         => \E j \in 1..Len(wire) :
                              wire[j].id = id /\ wire[j].audio = down[i].audio

\* C7's case: the EndFrame went downstream after both an audio chunk and a
\* timed frame that were queued when it arrived.
C7_Witness ==
    /\ EndFramePushed
    /\ ~end_disturbed
    /\ \E i, j \in 1..Len(down) :
         /\ down[i].id \in end_pending /\ IsOutputAudioRawFrame(down[i])
         /\ down[j].id \in end_pending /\ Truthy(down[j].pts)

CancelFramePushed == \E i \in 1..Len(down) : down[i].kind = "CancelFrame"

\* The senders whose cancel() has returned.
CancelReturned ==
    IF sys.frame.kind # "CancelFrame" THEN {}
    ELSE IF sys.pc \in CancelPcs
    THEN {sender_order[i] : i \in 1..(sys.idx - 1)}
    ELSE Destinations

\* After cancel() has returned on a sender its handles are null and its
\* workers are gone; the CancelFrame is downstream only once that holds for
\* every sender.
CancelledSendersAreDead ==
    /\ \A d \in CancelReturned :
          /\ media_senders[d].audio_task = 0
          /\ media_senders[d].clock_task = 0
          /\ LiveAudio(media_senders[d]) = {}
          /\ LiveClock(media_senders[d]) = {}
    /\ CancelFramePushed => CancelReturned = Destinations

\* C9: after cancel(CancelFrame) returns on a sender both task handles are
\* null and no frame that was still on its audio queue or clock queue is
\* pushed downstream or written; the CancelFrame is pushed downstream only
\* after every sender has been cancelled.
C9_CancelDoesNotDrain ==
    [][/\ CancelledSendersAreDead'
       /\ \A d \in DOMAIN cancelled_ids :
            /\ \A f \in Appended(down, down') : f.id \notin cancelled_ids[d]
            /\ \A w \in Appended(wire, wire') : w.id \notin cancelled_ids[d]]_vars

RECURSIVE Concat(_)
Concat(frames) ==
    IF frames = << >> THEN << >>
    ELSE frames[1].audio \o Concat(Tail(frames))

\* What one handle_audio_frame(frame) call on sender d must have done.
ChunkingExact(d, frame) ==
    LET s == media_senders[d]
        after == media_senders'[d]
        put == SubSeq(after.audio_queue, Len(s.audio_queue) + 1,
                      Len(after.audio_queue))
    IN /\ \A i \in 1..Len(put) :
            /\ Len(put[i].audio) = s.audio_chunk_size
            /\ put[i].kind = frame.kind
            /\ put[i].sample_rate = s.sample_rate
            /\ put[i].num_channels = frame.num_channels
       /\ Len(after.audio_buffer) < s.audio_chunk_size
       /\ Concat(put) \o after.audio_buffer
            = s.audio_buffer
                \o resample(frame.audio, frame.sample_rate, s.sample_rate)

\* C6: with audio_out_enabled and a positive audio_chunk_size, every
\* handle_audio_frame(frame) call puts chunks of exactly audio_chunk_size
\* bytes, of the source frame's variant, with the sender's sample_rate and
\* the source num_channels; leaves fewer than audio_chunk_size bytes in
\* audio_buffer; and the chunks in order followed by the new buffer are the
\* old buffer followed by the resampled input.
C6_ChunkingExact ==
    [][\A kind \in AudioKinds, dest \in Destinations, len \in ChunkLengths,
          rate \in ChunkRates, channels \in ChunkChannels :
         ProcessAudioFrame(kind, dest, len, rate, channels)
           => ChunkingExact(dest, AudioInput(kind, dest, len, rate, channels))
      ]_vars

\* C6's case: one frame gave two chunks and left bytes in the buffer, and a
\* frame at twice the sender's rate went through the resampler (its samples
\* 1 and 3 are adjacent in the stream).
C6_Witness ==
    \E d \in Destinations :
        LET q == media_senders[d].audio_queue
            b == media_senders[d].audio_buffer
            stream == Concat(q) \o b
        IN /\ params.audio_out_enabled
           /\ \E i \in 1..(Len(q) - 1) :
                /\ q[i].audio[1] = << q[i].id - 1, 1 >>
                /\ q[i + 1].audio[1] = << q[i].id - 1, 5 >>
           /\ b # << >>
           /\ \E k \in 1..(Len(stream) - 1) :
                /\ stream[k][2] = 2
                /\ stream[k + 1] = << stream[k][1], 5 >>

StopInProgress == fifo.frame.kind = "EndFrame" /\ fifo.pc \in StopPcs

CancelFrameHandled == sys.frame.kind = "CancelFrame"

\* C8: once the transport has begun to handle an EndFrame then, the workers
\* being scheduled fairly and the clock advancing, stop() returns and the
\* EndFrame is pushed downstream (unless a CancelFrame ends the transport
\* first), also when a StartInterruptionFrame is handled while stop() waits.
C8_EndFrameEventuallyPushed ==
    StopInProgress ~> (EndFramePushed \/ CancelFrameHandled)

\* C10: while a turn analyzer is configured and reports speech_triggered, the
\* input transport pushes no UserStartedSpeakingFrame, whether it is handling
\* a VAD change to SPEAKING or an EmulateUserStartedSpeakingFrame.
C10_NoUserStartedWhileTriggered ==
    \A k \in 1..Len(inp.down) :
        inp.down[k].kind = "UserStartedSpeakingFrame" => ~inp.down[k].triggered

VADFrameKinds == {"VADUserStartedSpeakingFrame", "VADUserStoppedSpeakingFrame"}

\* The VAD frames the input transport has pushed, in order.
VADFrames(log) == SelectSeq(log, LAMBDA f : f.kind \in VADFrameKinds)

\* Started, Stopped, Started, ...
VADAlternates(q) ==
    \A k \in 1..Len(q) :
        q[k].kind = IF k % 2 = 1 THEN "VADUserStartedSpeakingFrame"
                    ELSE "VADUserStoppedSpeakingFrame"

\* The audio task takes the analyzer's result in this step.
VadResultTaken == inp.task.pc = "analyze" /\ inp'.task.pc # "analyze"

\* C11: the committed vad_state is always QUIET or SPEAKING; a result that is
\* STARTING, STOPPING or the committed state pushes no VAD frame and leaves
\* the state as it is; a change to SPEAKING pushes exactly one
\* VADUserStartedSpeakingFrame and a change to QUIET exactly one
\* VADUserStoppedSpeakingFrame, whatever the turn analyzer reports; the VAD
\* frames alternate, Started first.
C11_VadCommitsAlternate ==
    /\ inp.task.vad_state = "QUIET"
    /\ [][/\ inp'.task.vad_state \in {"QUIET", "SPEAKING"}
           /\ VADAlternates(VADFrames(inp'.down))
           /\ VadResultTaken =>
                LET new == Appended(inp.down, inp'.down)
                    vad == {f \in new : f.kind \in VADFrameKinds}
                IN IF inp'.task.pc = "vad_pushed"
                   THEN /\ inp'.task.new_vad_state \in {"QUIET", "SPEAKING"}
                        /\ inp'.task.new_vad_state # inp.task.vad_state
                        /\ Len(inp'.down) = Len(inp.down) + 1
                        /\ vad = new
                        /\ \A f \in vad :
                             f.kind = IF inp'.task.new_vad_state = "SPEAKING"
                                      THEN "VADUserStartedSpeakingFrame"
                                      ELSE "VADUserStoppedSpeakingFrame"
                   ELSE /\ vad = {}
                        /\ inp'.task.vad_state = inp.task.vad_state
           /\ VadResultTaken =>
                \A r \in {s \in VADStates : inp' = InputHandleVad(inp, s)} :
                    (r \in {"QUIET", "SPEAKING"} /\ r # inp.task.vad_state)
                       <=> (inp'.task.pc = "vad_pushed"
                            /\ inp'.task.new_vad_state = r)
           /\ ~VadResultTaken
                => \A f \in Appended(inp.down, inp'.down) :
                      f.kind \notin VADFrameKinds]_vars

\* C11's case: with the turn analyzer reporting speech_triggered, a change to
\* SPEAKING and then one to QUIET were committed, each with its VAD frame.
C11_Witness ==
    LET q == VADFrames(inp.down)
    IN /\ Len(q) = 2
       /\ q[1].triggered /\ q[2].triggered
       /\ inp.task.vad_state = "QUIET"
       /\ inp.task.pc = "get"

\* The last interruption frame the input transport pushed is a Start.
StartInterruptionOpen ==
    \E k \in 1..Len(inp.down) :
        /\ inp.down[k].kind = "StartInterruptionFrame"
        /\ \A j \in (k + 1)..Len(inp.down) :
              inp.down[j].kind # "StopInterruptionFrame"

\* C12: every StartInterruptionFrame the input transport pushes is eventually
\* followed by a StopInterruptionFrame it pushes, unless a Cancel or End
\* frame is handled first.
C12_StartInterruptionPaired ==
    StartInterruptionOpen ~> (~StartInterruptionOpen \/ inp.end_or_cancel)

\* dest is null or one of the declared audio_out_destinations.
Declared(dest) ==
    \/ dest = DefaultDestination
    \/ \E i \in 1..Len(params.audio_out_destinations) :
          params.audio_out_destinations[i] = dest

\* This step hands a frame addressed to dest to _handle_frame.
RoutesTo(dest) ==
    \/ \E kind \in AudioKinds, len \in AudioLengths :
         ProcessAudioFrame(kind, dest, len, sample_rate, 1)
    \/ \E f \in OtherFrames : ProcessOtherFrame(f.kind, f.pts, dest)
    \/ ProcessStartInterruptionFrame(dest)

\* C13: after Start there is one sender per unique declared destination and
\* the null sender; a frame handed to _handle_frame reaches the sender of its
\* transport_destination iff that is null or declared, and no other sender;
\* a frame for any other destination changes no sender at all.
C13_RoutingByDestination ==
    [][/\ started' =>
            /\ DOMAIN media_senders' = {d \in RouteDestinations : Declared(d)}
            /\ Len(sender_order') = Cardinality(DOMAIN media_senders')
       /\ \A dest \in RouteDestinations :
            (started /\ RoutesTo(dest)) =>
                IF Declared(dest)
                THEN /\ media_senders'[dest] # media_senders[dest]
                     /\ \A o \in DOMAIN media_senders \ {dest} :
                          media_senders'[o] = media_senders[o]
                ELSE media_senders' = media_senders]_vars

\* C13's case: with two senders, the declared destination's sender holds a
\* frame, and a frame for an undeclared destination has been handled (an
\* interruption addressed to it went downstream) leaving the senders alone.
C13_Witness ==
    /\ Cardinality(DOMAIN media_senders) = 2
    /\ media_senders["a"].audio_queue # << >>
    /\ media_senders[DefaultDestination].audio_queue = << >>
    /\ \E k \in 1..Len(down) :
         down[k].kind = "StartInterruptionFrame" /\ down[k].dest = "b"
    /\ LiveAudio(media_senders["a"]) # {}

IsPrefix(a, b) == Len(a) <= Len(b) /\ a = SubSeq(b, 1, Len(a))

PipelineDrained == \A i \in 1..Len(pipe.queues) : pipe.queues[i] = << >>

\* C14: through a Pipeline of forwarding processors the data frames given
\* downstream leave through the pipeline's downstream push in the order they
\* were given, none lost or duplicated, and likewise upstream.
C14_PipelineKeepsOrder ==
    /\ IsPrefix(pipe.down_out, pipe.down_in)
    /\ IsPrefix(pipe.up_out, pipe.up_in)
    /\ PipelineDrained =>
          pipe.down_out = pipe.down_in /\ pipe.up_out = pipe.up_in

\* C14's case: through two processors, frames of both directions, given
\* alternately, have all left.
C14_Witness ==
    /\ pipe.n = 2
    /\ PipelineDrained
    /\ pipe.down_out = << 1, 3 >>
    /\ pipe.up_out = << 2, 4 >>

\* C15: resample with equal input and output rates returns its input.
C15_ResampleSameRateIsIdentity ==
    (fn.op = "resample" /\ fn.pc = "done" /\ fn.in_rate = fn.out_rate)
        => fn.result = fn.audio

\* C15's case: an odd number of bytes resampled at equal rates.
C15_Witness ==
    /\ fn.op = "resample" /\ fn.pc = "done"
    /\ fn.in_rate = fn.out_rate
    /\ Len(fn.audio) = 3
    /\ fn.result = fn.audio

\* The round trip has ended: deserialize returned, or serialize returned None.
RoundTripDone ==
    /\ fn.op = "round_trip"
    /\ fn.pc = "done" \/ (fn.pc = "serialized" /\ fn.data = NoData)

\* f and g are the same variant with equal payload, and equal id, name and
\* pts.
SameFrame(f, g) ==
    /\ g.variant = f.variant
    /\ g.payload = f.payload
    /\ g.id = f.id /\ g.name = f.name /\ g.pts = f.pts

\* C16: for a TextFrame, OutputAudioRawFrame, TranscriptionFrame,
\* TransportMessageFrame or TransportMessageUrgentFrame f,
\* deserialize(serialize(f)) is the same variant as f with equal payload and
\* equal id, name and pts (value 0 included).
C16_RoundTrip ==
    RoundTripDone => SameFrame(fn.frame, fn.result)

\* The step in which vad_analyzer.analyze_audio raises.
AnalyzerRaises == ~inp.analyzer_raised /\ inp'.analyzer_raised

\* C17: when vad_analyzer.analyze_audio raises, the worker goes on as if the
\* result were QUIET: it still pushes the audio frame when passthrough is set
\* and it keeps running.
C17_AnalyzerFailureIsQuiet ==
    [][AnalyzerRaises =>
          /\ inp'.task.status = "running"
          /\ inp' = [InputHandleVad(inp, "QUIET")
                       EXCEPT !.analyzer_raised = TRUE]]_vars

\* The step handles a StartInterruptionFrame while interruptions are not
\* allowed.
RefusedInterruption ==
    /\ ~params.interruptions_allowed
    /\ \E dest \in Destinations : ProcessStartInterruptionFrame(dest)

\* C18: when interruptions are not allowed, handle_interruptions leaves the
\* sender's tasks, queues, audio_buffer and bot_speaking as they are and
\* emits no frame (only the StartInterruptionFrame itself goes downstream),
\* and audio that was queued is still transmitted: nothing is flushed, and an
\* EndFrame not overlapped by a cancel goes downstream only after every
\* queued chunk was written.
C18_RefusedInterruptionChangesNothing ==
    [][/\ RefusedInterruption =>
            /\ media_senders' = media_senders
            /\ up' = up /\ wire' = wire /\ sent' = sent
            /\ Appended(down, down') = {sys'.frame}
            /\ sys'.pc = "idle"
       /\ ~params.interruptions_allowed =>
            /\ \A d \in DOMAIN flushed' : flushed'[d] = {}
            /\ \A k \in 1..Len(down') :
                 (down'[k].kind = "EndFrame" /\ ~CancelFrameHandled') =>
                    \A id \in end_pending' :
                       \E i \in 1..(k - 1) :
                          /\ down'[i].id = id
                          /\ IsOutputAudioRawFrame(down'[i])
                               => \E j \in 1..Len(wire') : wire'[j].id = id
      ]_vars

\* C18's case: interruptions are not allowed, a StartInterruptionFrame was
\* handled while an audio chunk was queued on a speaking sender, and that
\* chunk was written and pushed downstream afterwards.
C18_Witness ==
    /\ ~params.interruptions_allowed
    /\ \E k \in 1..Len(down) : \E i \in (k + 1)..Len(down) :
         /\ down[k].kind = "StartInterruptionFrame"
         /\ IsOutputAudioRawFrame(down[i])
         /\ down[i].id < down[k].id
         /\ \E j \in 1..Len(wire) : wire[j].id = down[i].id
         /\ \E u \in 1..Len(up) : up[u].kind = "BotStartedSpeakingFrame"

\* The tasks of `new` beyond those of `old` were created in the step.
Created(old, new) == (Len(old) + 1)..Len(new)

AudioWorkerAt(d, pc) ==
    \E h \in LiveAudio(media_senders[d]) :
        media_senders[d].audio_tasks[h].pc = pc

\* The audio worker of sender d is inside the _bot_stopped_speaking its
\* timeout began.
TimeoutStopUnderWay(d) ==
    AudioWorkerAt(d, "stopped_down") \/ AudioWorkerAt(d, "stopped_up")

\* C20: when the audio worker's wait on audio_queue times out while
\* bot_speaking is true, the worker pushes one BotStoppedSpeakingFrame
\* downstream, then one upstream, each with the sender's destination, then
\* sets bot_speaking to false and empties audio_buffer, and (scheduled
\* fairly) it gets there unless it is cancelled on the way; a timeout while
\* bot_speaking is false pushes nothing and changes nothing.
C20_TimeoutStopsSpeaking ==
    /\ [][\A d \in Destinations :
            LET s == media_senders[d]
                t == media_senders'[d]
                stopped == BotFrame("BotStoppedSpeakingFrame", s.destination)
            IN /\ (AudioTimeout(d) /\ s.bot_speaking) =>
                     /\ down' = Append(down, stopped)
                     /\ up' = up /\ wire' = wire
                     /\ AudioWorkerAt(d, "stopped_down")'
               /\ (AudioTimeout(d) /\ ~s.bot_speaking) =>
                     /\ media_senders' = media_senders
                     /\ down' = down /\ up' = up /\ wire' = wire
               /\ (AudioStep(d) /\ AudioWorkerAt(d, "stopped_down")) =>
                     /\ up' = Append(up, stopped)
                     /\ down' = down /\ wire' = wire
                     /\ AudioWorkerAt(d, "stopped_up")'
               /\ (AudioStep(d) /\ AudioWorkerAt(d, "stopped_up")) =>
                     /\ ~t.bot_speaking
                     /\ t.audio_buffer = << >>
                     /\ down' = down /\ up' = up /\ wire' = wire
                     /\ AudioWorkerAt(d, "get")'
               /\ (AudioWorkerAt(d, "get") /\ TimeoutStopUnderWay(d)') =>
                     AudioTimeout(d) /\ s.bot_speaking]_vars
    /\ \A d \in {DefaultDestination} :
         (d \in Destinations /\ TimeoutStopUnderWay(d))
            ~> (d \in Destinations /\ ~TimeoutStopUnderWay(d))

\* C20's case: with no interruption, end or cancel, a 6-byte TTS frame gave
\* one written chunk and a 2-byte rest, the wait timed out, and both
\* BotStoppedSpeakingFrames are out, the flag is false and the rest is gone.
C20_Witness ==
    /\ n_interruptions = 0 /\ ~terminated
    /\ fifo.pc = "idle" /\ sys.pc = "idle"
    /\ Len(wire) = 1 /\ Len(wire[1].audio) = 4
    /\ \A k \in 1..Len(down) : ~IsEndFrame(down[k])
    /\ \E d \in Destinations :
         /\ AudioWorkerAt(d, "get")
         /\ ~media_senders[d].bot_speaking
         /\ media_senders[d].audio_buffer = << >>
         /\ Len(BotTransitions(down, d)) = 2
         /\ Len(BotTransitions(up, d)) = 2
         /\ BotTransitions(down, d)[2].kind = "BotStoppedSpeakingFrame"
         /\ BotTransitions(up, d)[2].kind = "BotStoppedSpeakingFrame"

\* The BotSpeakingFrames and audio chunks of a log, in order.
SpeakingAndAudio(log) ==
    SelectSeq(log, LAMBDA f : f.kind = "BotSpeakingFrame"
                              \/ IsOutputAudioRawFrame(f))

\* How many of the first n frames of q are TTS chunks.
TTSCount(q, n) == Cardinality({i \in 1..n : IsTTSAudioRawFrame(q[i])})

\* C21: within one audio worker BotSpeakingFrame is pushed, once downstream
\* and once upstream, for the first TTSAudioRawFrame chunk and then for
\* exactly every P-th TTS chunk after it, P being BOT_SPEAKING_CHUNK_PERIOD;
\* chunks that are not TTS neither get a BotSpeakingFrame nor count.
C21_BotSpeakingCadence ==
    LET q == SpeakingAndAudio(down)
        P == BOT_SPEAKING_CHUNK_PERIOD
        speaking(log) == SelectSeq(log, LAMBDA f : f.kind = "BotSpeakingFrame")
    IN /\ P = IF 200 \div (params.audio_out_10ms_chunks * 10) > 1
              THEN 200 \div (params.audio_out_10ms_chunks * 10) ELSE 1
       /\ \A i \in 1..Len(q) :
            /\ IsTTSAudioRawFrame(q[i]) =>
                 ((i > 1 /\ q[i - 1].kind = "BotSpeakingFrame")
                    <=> (TTSCount(q, i) - 1) % P = 0)
            /\ q[i].kind = "BotSpeakingFrame" =>
                 /\ TTSCount(q, i) % P = 0
                 /\ i < Len(q) => IsTTSAudioRawFrame(q[i + 1])
       /\ Len(speaking(up)) \in {Len(speaking(down)), Len(speaking(down)) - 1}
       /\ Len(speaking(up)) # Len(speaking(down)) =>
            \E d \in Destinations : AudioWorkerAt(d, "speaking_down")

\* C21's case: with P = 2, two TTS chunks, a chunk that is not TTS and two
\* more TTS chunks went downstream; BotSpeakingFrame went out for the first
\* and the third TTS chunk, in each direction.
C21_Witness ==
    LET q == SpeakingAndAudio(down)
    IN /\ BOT_SPEAKING_CHUNK_PERIOD = 2
       /\ TTSCount(q, Len(q)) = 4
       /\ \E i \in 1..Len(q) : q[i].kind = "OutputAudioRawFrame"
                               /\ TTSCount(q, i) = 2
       /\ Cardinality({i \in 1..Len(q) : q[i].kind = "BotSpeakingFrame"}) = 2
       /\ Cardinality({i \in 1..Len(up) : up[i].kind = "BotSpeakingFrame"}) = 2

\* The frames on the clock queue of sender s.
ClockQueueFrames(s) == {e.frame : e \in s.clock_queue}

\* C22: a data frame that none of the earlier dispatch cases takes and whose
\* pts is not null (0 included) is put on its sender's clock_queue as
\* (pts, id, frame) and never on the audio_queue.
C22_TimedFramesToClockQueue ==
    [][\A pts \in TimedPts \ {None}, dest \in Destinations :
         ProcessOtherFrame("TextFrame", pts, dest) =>
            LET frame == PlainFrame("TextFrame", next_id, pts, dest)
                s == media_senders[dest]
                t == media_senders'[dest]
            IN /\ t.clock_queue =
                    s.clock_queue \cup
                      {[pts |-> pts[1], id |-> frame.id, frame |-> frame]}
               /\ t.audio_queue = s.audio_queue]_vars

InterruptionKinds == {"StartInterruptionFrame", "StopInterruptionFrame"}

\* The kinds of the frames the input transport pushes in this step, in order.
InputNewKinds ==
    [k \in 1..(Len(inp'.down) - Len(inp.down)) |->
        inp'.down[Len(inp.down) + k].kind]

\* The user frame and the interruption frame that go with a VAD state.
UserFrameOf(state) ==
    IF state = "SPEAKING" THEN "UserStartedSpeakingFrame"
    ELSE "UserStoppedSpeakingFrame"
InterruptionFrameOf(state) ==
    IF state = "SPEAKING" THEN "StartInterruptionFrame"
    ELSE "StopInterruptionFrame"

\* C23: handling a UserStartedSpeakingFrame (UserStoppedSpeakingFrame), from
\* the VAD or emulated, the input transport pushes that frame first and then,
\* iff interruptions are allowed, exactly one StartInterruptionFrame
\* (StopInterruptionFrame); a BotInterruptionFrame yields only the
\* StartInterruptionFrame; with interruptions not allowed the transport
\* pushes no interruption frame of its own.
C23_InterruptionFollowsUserFrame ==
    [][LET allowed == inp.interruptions_allowed
           own == SelectSeq(InputNewKinds,
                            LAMBDA k : k \in InterruptionKinds)
       IN /\ InputProcessEmulateUserStartedSpeakingFrame =>
               InputNewKinds = << "UserStartedSpeakingFrame" >>
                  \o (IF allowed THEN << "StartInterruptionFrame" >>
                      ELSE << >>)
          /\ InputProcessEmulateUserStoppedSpeakingFrame =>
               InputNewKinds = << "UserStoppedSpeakingFrame" >>
                  \o (IF allowed THEN << "StopInterruptionFrame" >>
                      ELSE << >>)
          /\ InputProcessBotInterruptionFrame =>
               InputNewKinds = (IF allowed THEN << "StartInterruptionFrame" >>
                                ELSE << >>)
          /\ (InputAudioStep /\ inp.task.pc = "vad_pushed"
                /\ inp.task.can_create_user_frames) =>
               /\ InputNewKinds = << UserFrameOf(inp.task.new_vad_state) >>
               /\ inp'.task.pc = "user_pushed"
          /\ (InputAudioStep /\ inp.task.pc = "user_pushed") =>
               own = (IF allowed
                      THEN << InterruptionFrameOf(inp.task.new_vad_state) >>
                      ELSE << >>)
          /\ (InputAudioStep /\ inp.task.pc # "user_pushed") => own = << >>
          /\ (~allowed /\ own # << >>) =>
               InputProcessPassFrame("StopInterruptionFrame")]_vars

\* C23's case: with interruptions allowed the VAD turned to SPEAKING and back
\* and the worker pushed UserStarted, StartInterruption, UserStopped and
\* StopInterruption in that order; nothing was emulated or passed through.
C23_Witness ==
    LET q == SelectSeq(inp.down,
                LAMBDA f : f.kind \in InterruptionKinds
                    \/ f.kind \in {"UserStartedSpeakingFrame",
                                   "UserStoppedSpeakingFrame"})
    IN /\ inp.interruptions_allowed
       /\ inp.n_frames = 3
       /\ [k \in 1..Len(q) |-> q[k].kind]
            = << "UserStartedSpeakingFrame", "StartInterruptionFrame",
                 "UserStoppedSpeakingFrame", "StopInterruptionFrame" >>
       /\ Len(VADFrames(inp.down)) = 2

\* C24: once the input transport has handled an EndFrame or a CancelFrame
\* with its audio worker running, the worker is cancelled, the task handle is
\* null, the End/Cancel frame has been pushed downstream and no input audio
\* frame is pushed downstream after it.
C24_EndOrCancelStopsInput ==
    inp.end_or_cancel =>
        /\ inp.task.status # "running"
        /\ inp.audio_task = 0
        /\ \E k \in 1..Len(inp.down) :
             /\ inp.down[k].kind \in {"EndFrame", "CancelFrame"}
             /\ \A j \in (k + 1)..Len(inp.down) :
                  inp.down[j].kind # "InputAudioRawFrame"

\* C25: after start(StartFrame) sample_rate is params.audio_out_sample_rate
\* when that is set and the StartFrame's audio_out_sample_rate otherwise,
\* audio_chunk_size is floor(sample_rate / 100) * audio_out_channels * 2 *
\* audio_out_10ms_chunks (1280 for 16000 Hz, 1 channel, 4 chunks), and every
\* sender was created with exactly those two values.
C25_StartComputesRateAndChunkSize ==
    started =>
        /\ sample_rate = IF params.audio_out_sample_rate # None
                         THEN params.audio_out_sample_rate[1]
                         ELSE params.start_audio_out_sample_rate
        /\ audio_chunk_size = (sample_rate \div 100) * params.audio_out_channels
                                * 2 * params.audio_out_10ms_chunks
        /\ (sample_rate = 16000 /\ params.audio_out_channels = 1
              /\ params.audio_out_10ms_chunks = 4) => audio_chunk_size = 1280
        /\ \A d \in DOMAIN media_senders :
             /\ media_senders[d].sample_rate = sample_rate
             /\ media_senders[d].audio_chunk_size = audio_chunk_size

\* C25's case: params leave the rate unset, the StartFrame says 16000 Hz, one
\* channel, 4 chunks: three senders with chunk size 1280.
C25_Witness ==
    /\ started
    /\ params.audio_out_sample_rate = None
    /\ sample_rate = 16000
    /\ audio_chunk_size = 1280
    /\ Cardinality(DOMAIN media_senders) = 3
    /\ \A d \in DOMAIN media_senders : media_senders[d].audio_chunk_size = 1280

UrgentQueued(ms) ==
    \E d \in DOMAIN ms :
      \/ \E i \in 1..Len(ms[d].audio_queue) :
           ms[d].audio_queue[i].kind = "TransportMessageUrgentFrame"
      \/ \E e \in ms[d].clock_queue :
           e.frame.kind = "TransportMessageUrgentFrame"

\* C26: a TransportMessageUrgentFrame is passed to send_message inside the
\* process_frame call that received it and is put on no audio_queue or
\* clock_queue; its delivery waits for no queued frame and does not depend on
\* its transport_destination being registered.
C26_UrgentMessageSentAtOnce ==
    [][\A dest \in RouteDestinations :
         ProcessTransportMessageUrgentFrame(dest) =>
           /\ sent' = Append(sent, TransportMessageUrgentFrame(next_id, dest))
           /\ ~UrgentQueued(media_senders')
           /\ \A d \in DOMAIN media_senders :
                /\ media_senders'[d].audio_queue = media_senders[d].audio_queue
                /\ media_senders'[d].clock_queue = media_senders[d].clock_queue
           /\ wire' = wire /\ down' = down]_vars

\* C26's case: an urgent message for an undeclared destination was sent while
\* frames handled before it still wait on an audio_queue and a clock_queue.
C26_Witness ==
    \E k \in 1..Len(sent) :
      /\ sent[k].kind = "TransportMessageUrgentFrame"
      /\ sent[k].dest \notin DOMAIN media_senders
      /\ \E d \in DOMAIN media_senders :
           /\ \E i \in 1..Len(media_senders[d].audio_queue) :
                /\ media_senders[d].audio_queue[i].id # 0
                /\ media_senders[d].audio_queue[i].id < sent[k].id
           /\ \E e \in media_senders[d].clock_queue : e.id < sent[k].id

\* C27: after Pipeline([P1..Pn]) (n >= 0) the processor list is
\* [source, P1..Pn, sink]; for every adjacent pair X, Y of it X's next is Y
\* and Y's previous is X; each of the n + 2 processors has the pipeline as
\* parent.
C27_PipelineLinksItsProcessors ==
    (fn.op = "Pipeline" /\ fn.pc = "done") =>
        LET n == Len(fn.processors)
        IN /\ Len(fn.list) = n + 2
           /\ fn.list[1] = "source"
           /\ fn.list[n + 2] = "sink"
           /\ \A i \in 1..n : fn.list[i + 1] = fn.processors[i]
           /\ \A i \in 1..(n + 1) :
                /\ fn.objs[fn.list[i]].next = fn.list[i + 1]
                /\ fn.objs[fn.list[i + 1]].prev = fn.list[i]
           /\ \A i \in 1..(n + 2) : fn.objs[fn.list[i]].parent = "pipeline"

\* C27's case: a pipeline built around three processors, two of them used in
\* another pipeline before; the one left out keeps its old references.
C27_Witness ==
    /\ fn.op = "Pipeline" /\ fn.pc = "done"
    /\ fn.processors = << "p2", "p1", "p3" >>
    /\ fn.objs["p2"] = [prev |-> "source", next |-> "p1", parent |-> "pipeline"]
    /\ fn.objs["p3"] = [prev |-> "p1", next |-> "sink", parent |-> "pipeline"]
    /\ fn.objs["sink"].next = NoProcessor
    /\ fn.objs["source"].prev = NoProcessor

InterruptionQueued(s) ==
    \/ \E i \in 1..Len(s.audio_queue) : s.audio_queue[i].kind \in InterruptionKinds
    \/ \E e \in s.clock_queue : e.frame.kind \in InterruptionKinds

\* C28: every StartInterruptionFrame and StopInterruptionFrame the output
\* transport receives is pushed downstream exactly once, and neither kind is
\* ever placed on an audio_queue or a clock_queue.
C28_InterruptionFramesPushedOnce ==
    /\ \A d \in DOMAIN media_senders : ~InterruptionQueued(media_senders[d])
    /\ \A i, j \in DOMAIN down :
         (down[i].kind \in InterruptionKinds /\ down[i].id = down[j].id)
            => i = j

Quiescent(s) == LiveAudio(s) = {} /\ LiveClock(s) = {}

\* C29: once a sender has completed stop(EndFrame) or cancel(CancelFrame) it
\* never again has a running audio or clock worker and never again pushes a
\* frame downstream or writes audio, also when a StartInterruptionFrame or
\* further audio frames are handled afterwards.  (The frames process_frame
\* itself passes on are the transport's pushes, not the sender's.)
C29_StoppedSenderStaysStopped ==
    [][terminated =>
         /\ \A d \in DOMAIN media_senders' : Quiescent(media_senders'[d])
         /\ wire' = wire
         /\ \A i \in (Len(down) + 1)..Len(down') :
              down'[i].kind \in {"StartInterruptionFrame", "EndFrame",
                                 "CancelFrame"}]_vars

\* A BotStartedSpeakingFrame of destination d with no BotStoppedSpeakingFrame
\* after it yet.
SpeakingOpen(d) ==
    LET q == BotTransitions(down, d)
    IN q # << >> /\ q[Len(q)].kind = "BotStartedSpeakingFrame"

\* stop(EndFrame) has returned in this step: process_frame pushes the EndFrame.
StopReturns ==
    Len(down') = Len(down) + 1 /\ down'[Len(down')].kind = "EndFrame"

\* C30: every BotStartedSpeakingFrame a sender pushes is eventually followed
\* by a BotStoppedSpeakingFrame of the same destination, also when the stream
\* ends with an EndFrame while the bot is speaking: when stop(EndFrame)
\* returns, the sender's bot_speaking flag is false.
C30_SpeakingAlwaysEnds ==
    /\ SpeakingOpen(DefaultDestination) ~> ~SpeakingOpen(DefaultDestination)
    /\ [][StopReturns =>
            \A d \in DOMAIN media_senders : ~media_senders'[d].bot_speaking]_vars

SeqBytes(q) == {q[k] : k \in 1..Len(q)}

\* The audio bytes a sender holds: in its buffer, on its audio queue and in
\* the frames its audio workers have taken.
HeldBytes(s) ==
    SeqBytes(s.audio_buffer)
    \cup UNION {SeqBytes(s.audio_queue[i].audio) : i \in 1..Len(s.audio_queue)}
    \cup UNION {SeqBytes(s.audio_tasks[h].frame.audio) :
                  h \in 1..Len(s.audio_tasks)}

AudioFrameRoutedTo(dest) ==
    \E kind \in AudioKinds, len \in AudioLengths :
      ProcessAudioFrame(kind, dest, len, sample_rate, 1)

InterruptionHandledFor(dest) ==
    \/ ProcessStartInterruptionFrame(dest)
    \/ InterruptContinue /\ sys.frame.dest = dest

\* C31: a StartInterruptionFrame interrupts only the sender whose key is the
\* frame's transport_destination: every other sender (tasks, audio_queue,
\* clock_queue, audio_buffer, bot_speaking) is unchanged; and audio written
\* for a destination comes from frames routed to that destination's sender:
\* an audio frame changes only its own sender, no sender ever holds a byte it
\* neither held before nor was just handed, and what is written for d was
\* held by d's sender.
C31_InterruptionAndAudioStayWithTheirSender ==
    [][/\ \A dest \in RouteDestinations :
            InterruptionHandledFor(dest) =>
              \A d \in DOMAIN media_senders \ {dest} :
                media_senders'[d] = media_senders[d]
       /\ \A dest \in DOMAIN media_senders :
            AudioFrameRoutedTo(dest) =>
              /\ \A d \in DOMAIN media_senders \ {dest} :
                   media_senders'[d] = media_senders[d]
              /\ HeldBytes(media_senders'[dest]) \subseteq
                   HeldBytes(media_senders[dest])
                     \cup UNION {SeqBytes(AudioOf(next_id, len)) :
                                   len \in AudioLengths}
       /\ (~\E dest \in DOMAIN media_senders : AudioFrameRoutedTo(dest)) =>
            \A d \in DOMAIN media_senders :
              HeldBytes(media_senders'[d]) \subseteq HeldBytes(media_senders[d])
       /\ \A w \in Appended(wire, wire') :
            /\ w.destination \in DOMAIN media_senders
            /\ SeqBytes(w.audio) \subseteq
                 HeldBytes(media_senders[w.destination])]_vars

\* C31's case: audio was handed to both senders, the sender of "a" was
\* interrupted (its first workers replaced) while the default sender kept
\* its only worker, and audio handed over before that interruption was
\* written for the default destination.
C31_Witness ==
    /\ started
    /\ DOMAIN media_senders = {DefaultDestination, "a"}
    /\ Len(media_senders["a"].audio_tasks) = 2
    /\ Len(media_senders[DefaultDestination].audio_tasks) = 1
    /\ \E i \in 1..Len(wire) :
         /\ wire[i].destination = DefaultDestination
         /\ \E j \in 1..Len(down) :
              /\ down[j].kind = "StartInterruptionFrame" /\ down[j].dest = "a"
              /\ \A b \in SeqBytes(wire[i].audio) : b[1] < down[j].id

====
